---- MODULE Spec2Model ----
(***************************************************************************)
(* typed-tasks: the scheduling and deduplication engine.                   *)
(*                                                                         *)
(* A scheduling call (scheduler.ts, createSchedulerFactory) looks up the   *)
(* queue's configuration in the task registry, resolves the task name and  *)
(* the schedule time, builds the request and submits it with               *)
(* tasksClient.createTask under p-retry.  The Cloud Tasks transport and    *)
(* the clock are the environment.                                          *)
(***************************************************************************)
EXTENDS Integers, Sequences, FiniteSets, TLC

VARIABLES
    definitions,  \* the task definitions createTypedTasks was given
    registry,     \* taskRegistry: queue name -> TaskConfig (or no entry)
    now,          \* Date.now(), in milliseconds
    taskNames,    \* the transport: names of the tasks stored in the queues
    calls,        \* the scheduling calls, by call id
    handlerOptions, \* the options of createTypedTasks and of createHandler
    execution     \* the delivery of one task to the function of its queue

vars ==
    <<definitions, registry, now, taskNames, calls, handlerOptions, execution>>

----------------------------------------------------------------------------
(* Bounds of the model *)

\* clock steps; the clock advances TickMs per step
MaxTicks == 2
TickMs == 500

\* the latest clock reading of the model
MaxNow == 2 * MaxTicks * TickMs

(* Program constants *)

\* retries: 5 (p-retry option)
Retries == 5
\* milliseconds per second, in `Date.now() / 1000` and `window * 1000`
MsPerSecond == 1000

\* the scheduling calls that may run concurrently
CallIds == {1, 2}

Queues == {"emailQueue", "syncQueue"}

----------------------------------------------------------------------------
(* Optional values: a JavaScript value that may be undefined *)

NoNum == [some |-> FALSE, v |-> 0]
Num(n) == [some |-> TRUE, v |-> n]
NoBool == [some |-> FALSE, v |-> FALSE]
Bool(b) == [some |-> TRUE, v |-> b]
NoStr == [some |-> FALSE, v |-> ""]
Str(s) == [some |-> TRUE, v |-> s]

\* JavaScript truthiness of an optional number: undefined and 0 are falsy
NumTruthy(o) == o.some /\ o.v # 0
\* JavaScript truthiness of an optional string: undefined and "" are falsy
StrTruthy(o) == o.some /\ o.v # ""
\* !!x of an optional boolean
BoolTruthy(o) == o.some /\ o.v

----------------------------------------------------------------------------
(* Payloads: the JSON values a caller schedules *)

JString(s) == [t |-> "string", k |-> "", v |-> s]
JNumber(s) == [t |-> "number", k |-> "", v |-> s]
JObject(key, s) == [t |-> "object", k |-> key, v |-> s]

\* the payload undefined, and a Date given by its ISO string
JUndefined == [t |-> "undefined", k |-> "", v |-> ""]
JDate(iso) == [t |-> "date", k |-> "", v |-> iso]

\* an object whose property key refers to the object itself
JCircular(key) == [t |-> "circular", k |-> key, v |-> ""]

\* the message of the TypeError JSON.stringify throws on a circular object:
\* it names the property that closes the circle
CircularMessage(key) ==
    "Converting circular structure to JSON --> starting at object with"
    \o " constructor 'Object' --- property '" \o key \o "' closes the circle"

\* the characters of a string as JSON.stringify writes them between the
\* quotes: a quote inside the string is escaped with a backslash (given for
\* the strings of the model that hold quotes)
JSONescape(s) ==
    IF s = "{\"email\":\"a\"}" THEN "{\\\"email\\\":\\\"a\\\"}" ELSE s

\* JSON.stringify of a payload: a string is quoted, a number is its digits,
\* an object with one string-valued key is {"key":"value"}, a Date is its
\* toJSON string, quoted
JSONstringify(data) ==
    CASE data.t = "string" -> "\"" \o JSONescape(data.v) \o "\""
      [] data.t = "number" -> data.v
      [] data.t = "object" -> "{\"" \o data.k \o "\":\"" \o data.v \o "\"}"
      [] data.t = "date" -> "\"" \o data.v \o "\""

\* JSON.stringify({ data }): a property whose value is undefined is left out
JSONstringifyEnvelope(data) ==
    IF data.t = "undefined"
    THEN "{}"
    ELSE "{\"data\":" \o JSONstringify(data) \o "}"

\* crypto.createHash("md5").update(s).digest("hex"), taken as injective
md5(s) == "md5(" \o s \o ")"

\* Buffer.from(s).toString("base64")
base64(s) == <<"base64", s>>

----------------------------------------------------------------------------
(* Task definitions and the task registry *)

NoEntry == [present |-> FALSE,
            deduplicationWindowSeconds |-> NoNum,
            useDeduplication |-> NoBool]

TaskConfig(w, u) == [present |-> TRUE,
                     deduplicationWindowSeconds |-> w,
                     useDeduplication |-> u]

\* a definition is a bare schema, or an object {schema, options?}
SchemaDefinition == [isSchema |-> TRUE, hasOptions |-> FALSE,
                     deduplicationWindowSeconds |-> NoNum,
                     useDeduplication |-> NoBool]
ObjectDefinition == [isSchema |-> FALSE, hasOptions |-> FALSE,
                     deduplicationWindowSeconds |-> NoNum,
                     useDeduplication |-> NoBool]
OptionsDefinition(w, u) == [isSchema |-> FALSE, hasOptions |-> TRUE,
                            deduplicationWindowSeconds |-> w,
                            useDeduplication |-> u]

\* `deduplicationWindowSeconds && deduplicationWindowSeconds > 0`
WindowPositive(w) == NumTruthy(w) /\ w.v > 0

\* RegistryEntry that registers every definition, with deduplication by
\* default for a definition without options
RegistryEntryForEvery(definition) ==
    IF ~definition.isSchema /\ definition.hasOptions
    THEN TaskConfig(definition.deduplicationWindowSeconds,
                    Bool(BoolTruthy(definition.useDeduplication)
                         \/ WindowPositive(definition.deduplicationWindowSeconds)))
    ELSE TaskConfig(NoNum, Bool(TRUE))

\* createTypedTasks: the registry entry of one definition
RegistryEntry(definition) ==
    IF ~definition.isSchema /\ definition.hasOptions
    THEN TaskConfig(definition.deduplicationWindowSeconds,
                    Bool(BoolTruthy(definition.useDeduplication)
                         \/ WindowPositive(definition.deduplicationWindowSeconds)))
    ELSE NoEntry

\* createTypedTasks: the registry populated from the definitions
PopulateRegistry(defs) == [q \in DOMAIN defs |-> RegistryEntry(defs[q])]

----------------------------------------------------------------------------
(* Resolution of the task name and the schedule time *)

\* windowBoundary rounded to the nearest boundary instead of floored
windowBoundaryRounded(currentTime, w) ==
    (currentTime + ((w * MsPerSecond) \div 2)) \div (w * MsPerSecond)

\* Math.floor(currentTime / (deduplicationWindowSeconds * 1000))
windowBoundary(currentTime, w) == currentTime \div (w * MsPerSecond)

\* generateTaskNameFromPayload with the timestamp itself as the suffix
generateTaskNameFromPayloadTimestamp(data, w, currentTime) ==
    LET dataString == IF data.t = "string" THEN data.v ELSE JSONstringify(data)
        baseHash == md5(dataString)
    IN  IF WindowPositive(w)
        THEN baseHash \o "-" \o ToString(currentTime)
        ELSE baseHash

\* generateTaskNameFromPayload that never adds the window suffix
generateTaskNameFromPayloadNoSuffix(data, w, currentTime) ==
    md5(IF data.t = "string" THEN data.v ELSE JSONstringify(data))

generateTaskNameFromPayload(data, w, currentTime) ==
    LET dataString == IF data.t = "string" THEN data.v ELSE JSONstringify(data)
        baseHash == md5(dataString)
    IN  IF WindowPositive(w)
        THEN baseHash \o "-" \o ToString(windowBoundary(currentTime, w.v))
        ELSE baseHash

\* useDeduplication read from the stored flag alone
useDeduplicationStored(taskConfig) == BoolTruthy(taskConfig.useDeduplication)

\* !!taskConfig?.useDeduplication || (window && window > 0)
useDeduplication(taskConfig) ==
    BoolTruthy(taskConfig.useDeduplication)
    \/ WindowPositive(taskConfig.deduplicationWindowSeconds)

\* finalTaskName that generates nothing: the name is the caller's, if any
finalTaskNameAsGiven(taskConfig, data, options, currentTime) == options.taskName

\* finalTaskName that generates a name whenever the caller gives none
finalTaskNameAlwaysGenerated(taskConfig, data, options, currentTime) ==
    LET w == taskConfig.deduplicationWindowSeconds IN
    IF ~StrTruthy(options.taskName)
    THEN Str(generateTaskNameFromPayload(data, w, currentTime))
    ELSE IF WindowPositive(w)
    THEN Str(options.taskName.v \o "-"
             \o ToString(windowBoundary(currentTime, w.v)))
    ELSE options.taskName

\* finalTaskName that leaves a caller's name without the window suffix
finalTaskNameCallerUnsuffixed(taskConfig, data, options, currentTime) ==
    LET w == taskConfig.deduplicationWindowSeconds IN
    IF useDeduplication(taskConfig) /\ ~StrTruthy(options.taskName)
    THEN Str(generateTaskNameFromPayload(data, w, currentTime))
    ELSE options.taskName

\* finalTaskName that numbers the generated names by the tasks stored so far
finalTaskNameNumbered(taskConfig, data, options, currentTime) ==
    LET w == taskConfig.deduplicationWindowSeconds IN
    IF useDeduplication(taskConfig) /\ ~StrTruthy(options.taskName)
    THEN Str(generateTaskNameFromPayload(data, w, currentTime)
             \o "-" \o ToString(Cardinality(taskNames)))
    ELSE IF StrTruthy(options.taskName) /\ WindowPositive(w)
    THEN Str(options.taskName.v \o "-"
             \o ToString(windowBoundary(currentTime, w.v)))
    ELSE options.taskName

\* finalTaskName that tests the caller's name against undefined alone
finalTaskNameIfDefined(taskConfig, data, options, currentTime) ==
    LET w == taskConfig.deduplicationWindowSeconds IN
    IF useDeduplication(taskConfig) /\ ~options.taskName.some
    THEN Str(generateTaskNameFromPayload(data, w, currentTime))
    ELSE IF options.taskName.some /\ WindowPositive(w)
    THEN Str(options.taskName.v \o "-"
             \o ToString(windowBoundary(currentTime, w.v)))
    ELSE options.taskName

\* the final task name: generated, suffixed or as given
finalTaskName(taskConfig, data, options, currentTime) ==
    LET w == taskConfig.deduplicationWindowSeconds IN
    IF useDeduplication(taskConfig) /\ ~StrTruthy(options.taskName)
    THEN Str(generateTaskNameFromPayload(data, w, currentTime))
    ELSE IF StrTruthy(options.taskName) /\ WindowPositive(w)
    THEN Str(options.taskName.v \o "-"
             \o ToString(windowBoundary(currentTime, w.v)))
    ELSE options.taskName

\* scheduleTimeSeconds with the caller's delay tested first
scheduleTimeSecondsDelayFirst(taskConfig, options, currentTime) ==
    LET w == taskConfig.deduplicationWindowSeconds IN
    IF NumTruthy(options.delaySeconds) /\ options.delaySeconds.v > 0
    THEN Num((currentTime \div MsPerSecond) + options.delaySeconds.v)
    ELSE IF WindowPositive(w)
    THEN Num((currentTime \div MsPerSecond) + w.v)
    ELSE NoNum

\* scheduleTimeSeconds without the test that the window is positive
scheduleTimeSecondsAnyWindow(taskConfig, options, currentTime) ==
    LET w == taskConfig.deduplicationWindowSeconds IN
    IF w.some
    THEN Num((currentTime \div MsPerSecond) + w.v)
    ELSE IF NumTruthy(options.delaySeconds) /\ options.delaySeconds.v > 0
    THEN Num((currentTime \div MsPerSecond) + options.delaySeconds.v)
    ELSE NoNum

\* scheduleTimeSeconds without the test that the delay is positive
scheduleTimeSecondsAnyDelay(taskConfig, options, currentTime) ==
    LET w == taskConfig.deduplicationWindowSeconds IN
    IF WindowPositive(w)
    THEN Num((currentTime \div MsPerSecond) + w.v)
    ELSE IF NumTruthy(options.delaySeconds)
    THEN Num((currentTime \div MsPerSecond) + options.delaySeconds.v)
    ELSE NoNum

\* scheduleTimeSeconds that schedules a windowed task for the current second
scheduleTimeSecondsNoWindowDelay(taskConfig, options, currentTime) ==
    LET w == taskConfig.deduplicationWindowSeconds IN
    IF WindowPositive(w)
    THEN Num(currentTime \div MsPerSecond)
    ELSE IF NumTruthy(options.delaySeconds) /\ options.delaySeconds.v > 0
    THEN Num((currentTime \div MsPerSecond) + options.delaySeconds.v)
    ELSE NoNum

\* scheduleTimeSeconds that schedules a task without window and without
\* delay for the current second
scheduleTimeSecondsExplicitNow(taskConfig, options, currentTime) ==
    LET w == taskConfig.deduplicationWindowSeconds IN
    IF WindowPositive(w)
    THEN Num((currentTime \div MsPerSecond) + w.v)
    ELSE IF NumTruthy(options.delaySeconds) /\ options.delaySeconds.v > 0
    THEN Num((currentTime \div MsPerSecond) + options.delaySeconds.v)
    ELSE Num(currentTime \div MsPerSecond)

\* the schedule time: the window has priority over delaySeconds
scheduleTimeSeconds(taskConfig, options, currentTime) ==
    LET w == taskConfig.deduplicationWindowSeconds IN
    IF WindowPositive(w)
    THEN Num((currentTime \div MsPerSecond) + w.v)
    ELSE IF NumTruthy(options.delaySeconds) /\ options.delaySeconds.v > 0
    THEN Num((currentTime \div MsPerSecond) + options.delaySeconds.v)
    ELSE NoNum

\* tasksClient.queuePath / tasksClient.taskPath
queuePath(queueName) == "queues/" \o queueName
taskPath(queueName, name) == queuePath(queueName) \o "/tasks/" \o name

\* the request handed to createTask: {parent, task}
BuildRequest(queueName, data, name, seconds) ==
    [parent |-> queuePath(queueName),
     name |-> IF StrTruthy(name) THEN Str(taskPath(queueName, name.v)) ELSE NoStr,
     scheduleTime |-> IF NumTruthy(seconds) THEN seconds ELSE NoNum,
     body |-> base64(JSONstringifyEnvelope(data))]

----------------------------------------------------------------------------
(* Errors *)

NoError == [cls |-> "none", message |-> ""]
Error(message) == [cls |-> "Error", message |-> message]
TypeError(message) == [cls |-> "TypeError", message |-> message]
AbortError(message) == [cls |-> "AbortError", message |-> message]

\* the transport's answer to a name that already exists in the queue
ConflictError == Error("6 ALREADY_EXISTS: Requested entity already exists")
\* transient faults of the transport
TransientErrors == {Error("14 UNAVAILABLE"), Error("4 DEADLINE_EXCEEDED")}
\* a failure p-retry does not retry: a TypeError that is no network error
ClientErrors == {TypeError("Cannot read properties of undefined")}

\* error instanceof Error (TypeError and AbortError extend Error)
instanceofError(error) == error.cls \in {"Error", "TypeError", "AbortError"}

\* error.message.includes("ALREADY_EXISTS"), for the messages of the model
includesALREADY_EXISTS(message) ==
    message \in {"6 ALREADY_EXISTS: Requested entity already exists",
                 CircularMessage("ALREADY_EXISTS")}

\* the error JSON.stringify throws on a payload, if any
JSONstringifyError(data) ==
    IF data.t = "circular" THEN TypeError(CircularMessage(data.k)) ELSE NoError

\* the error of createHash("md5").update(JSON.stringify(data)): the one
\* JSON.stringify throws, or the one update throws on undefined
dataStringError(data) ==
    IF JSONstringifyError(data) # NoError
    THEN JSONstringifyError(data)
    ELSE IF data.t = "undefined"
    THEN TypeError("The \"data\" argument must be of type string")
    ELSE NoError

\* getErrorMessage
getErrorMessage(error) == error.message

----------------------------------------------------------------------------
(* The retry protocol of one attempt's failure *)

\* attemptCatch without the conflict test: every error is rethrown as it is
attemptCatchRethrow(error) == error

\* the catch inside the retried function: a conflict aborts the retries
attemptCatch(error) ==
    IF instanceofError(error) /\ includesALREADY_EXISTS(error.message)
    THEN AbortError(error.message)
    ELSE error

\* a line of the console: level, the queue or task it names, the attempt
\* counters of a warning, and the error message it carries
NoLog == [level |-> "none", subject |-> "", attemptNumber |-> 0,
          retriesLeft |-> 0, message |-> ""]
LogLine(level, subject, attemptNumber, retriesLeft, message) ==
    [level |-> level, subject |-> subject, attemptNumber |-> attemptNumber,
     retriesLeft |-> retriesLeft, message |-> message]

\* onFailedAttempt that logs nothing
onFailedAttemptSilent(queueName, error, attemptNumber, retriesLeft) == NoLog

\* onFailedAttempt: the warning it logs, if any
onFailedAttempt(queueName, error, attemptNumber, retriesLeft) ==
    IF error.cls # "AbortError"
    THEN LogLine("warn", queueName, attemptNumber, retriesLeft,
                 getErrorMessage(error))
    ELSE NoLog

\* pRetry counting the first attempt as one of the five retries
pRetryFiveAttempts(queueName, error, attemptNumber) ==
    CASE error.cls = "AbortError" ->
            [verdict |-> "reject", error |-> Error(error.message), log |-> NoLog]
      [] error.cls = "TypeError" ->
            [verdict |-> "reject", error |-> error, log |-> NoLog]
      [] OTHER ->
            [verdict |-> IF attemptNumber >= Retries THEN "reject" ELSE "retry",
             error |-> error,
             log |-> onFailedAttempt(queueName, error, attemptNumber,
                                     Retries - (attemptNumber - 1))]

\* pRetry that gives up at the first error
pRetryNoRetry(queueName, error, attemptNumber) ==
    CASE error.cls = "AbortError" ->
            [verdict |-> "reject", error |-> Error(error.message), log |-> NoLog]
      [] OTHER ->
            [verdict |-> "reject", error |-> error, log |-> NoLog]

\* pRetry with one retry more than configured
pRetryOneMoreRetry(queueName, error, attemptNumber) ==
    CASE error.cls = "AbortError" ->
            [verdict |-> "reject", error |-> Error(error.message), log |-> NoLog]
      [] error.cls = "TypeError" ->
            [verdict |-> "reject", error |-> error, log |-> NoLog]
      [] OTHER ->
            [verdict |-> IF attemptNumber >= Retries + 2 THEN "reject" ELSE "retry",
             error |-> error,
             log |-> onFailedAttempt(queueName, error, attemptNumber,
                                     Retries - (attemptNumber - 1))]

\* p-retry with {retries: 5}: what it does with the error of attempt
\* attemptNumber.  An AbortError ends the loop with its original error, a
\* TypeError is not retried, any other error is handed to onFailedAttempt
\* and retried while retries are left.
pRetry(queueName, error, attemptNumber) ==
    CASE error.cls = "AbortError" ->
            [verdict |-> "reject", error |-> Error(error.message), log |-> NoLog]
      [] error.cls = "TypeError" ->
            [verdict |-> "reject", error |-> error, log |-> NoLog]
      [] OTHER ->
            [verdict |-> IF attemptNumber >= Retries + 1 THEN "reject" ELSE "retry",
             error |-> error,
             log |-> onFailedAttempt(queueName, error, attemptNumber,
                                     Retries - (attemptNumber - 1))]

\* scheduleCatch that logs the failure and does not rethrow it
scheduleCatchSwallow(queueName, name, error) ==
    IF instanceofError(error) /\ includesALREADY_EXISTS(error.message)
    THEN [pc |-> "Deduplicated", thrown |-> NoError,
          log |-> LogLine("info", IF name.some THEN name.v ELSE "undefined",
                          0, 0, "Skipping task")]
    ELSE [pc |-> "Succeeded", thrown |-> NoError,
          log |-> LogLine("error", queueName, 0, 0, getErrorMessage(error))]

\* scheduleCatch that logs the conflict with console.error before returning
scheduleCatchConflictAsError(queueName, name, error) ==
    IF instanceofError(error) /\ includesALREADY_EXISTS(error.message)
    THEN [pc |-> "Deduplicated", thrown |-> NoError,
          log |-> LogLine("error", queueName, 0, 0, getErrorMessage(error))]
    ELSE [pc |-> "TerminalFailure", thrown |-> error,
          log |-> LogLine("error", queueName, 0, 0, getErrorMessage(error))]

\* scheduleCatch without the conflict test: every error is logged and
\* rethrown
scheduleCatchRethrow(queueName, name, error) ==
    [pc |-> "TerminalFailure", thrown |-> error,
     log |-> LogLine("error", queueName, 0, 0, getErrorMessage(error))]

\* scheduleCatch that takes every error for the conflict
scheduleCatchSkipAll(queueName, name, error) ==
    [pc |-> "Deduplicated", thrown |-> NoError,
     log |-> LogLine("info", IF name.some THEN name.v ELSE "undefined",
                     0, 0, "Skipping task")]

\* the catch around the submission: a conflict is success, logged with
\* console.info; anything else is logged with console.error and rethrown
scheduleCatch(queueName, name, error) ==
    IF instanceofError(error) /\ includesALREADY_EXISTS(error.message)
    THEN [pc |-> "Deduplicated", thrown |-> NoError,
          log |-> LogLine("info", IF name.some THEN name.v ELSE "undefined",
                          0, 0, "Skipping task")]
    ELSE [pc |-> "TerminalFailure", thrown |-> error,
          log |-> LogLine("error", queueName, 0, 0, getErrorMessage(error))]

----------------------------------------------------------------------------
(* The scheduling calls *)

NoRequest == [parent |-> "", name |-> NoStr, scheduleTime |-> NoNum,
              body |-> base64("")]

\* nameNow and scheduleNow are the two readings of Date.now(); warns, infos
\* and errors count the console lines of each level; lastLog
\* is the latest line and lastWarn the latest console.warn
PendingCall ==
    [pc |-> "Pending", queueName |-> "", data |-> JString(""),
     options |-> [taskName |-> NoStr, delaySeconds |-> NoNum],
     nameNow |-> 0, scheduleNow |-> 0, finalTaskName |-> NoStr,
     request |-> NoRequest, attempts |-> 0, lastError |-> NoError,
     thrown |-> NoError, warns |-> 0, infos |-> 0, errors |-> 0,
     lastLog |-> NoLog, lastWarn |-> NoLog, stored |-> 0, delays |-> <<>>]

\* the call's console after one more line
Logged(call, line) ==
    IF line.level = "none" THEN call
    ELSE [call EXCEPT !.lastLog = line,
                      !.lastWarn = IF line.level = "warn" THEN line ELSE @,
                      !.warns = @ + (IF line.level = "warn" THEN 1 ELSE 0),
                      !.infos = @ + (IF line.level = "info" THEN 1 ELSE 0),
                      !.errors = @ + (IF line.level = "error" THEN 1 ELSE 0)]

\* the call after scheduler(data, options) has run up to its first
\* createTask call, or up to the error that ends it.  The name is resolved
\* before the try block: an error of generateTaskNameFromPayload leaves the
\* scheduler as it is, with nothing logged.  The body is serialized inside
\* the try block: an error of JSON.stringify goes through the catch.
ScheduledCall(call, queueName, data, options, nameNow, scheduleNow) ==
    LET taskConfig == registry[queueName]
        generates == useDeduplication(taskConfig) /\ ~StrTruthy(options.taskName)
        nameError == IF generates /\ data.t # "string"
                     THEN dataStringError(data) ELSE NoError
        bodyError == JSONstringifyError(data)
        name == finalTaskName(taskConfig, data, options, nameNow)
        seconds == scheduleTimeSeconds(taskConfig, options, scheduleNow)
        entered == [call EXCEPT !.queueName = queueName,
                                !.data = data,
                                !.options = options]
        resolved == [entered EXCEPT !.nameNow = nameNow,
                                    !.scheduleNow = scheduleNow,
                                    !.finalTaskName = name]
    IN  IF nameError # NoError
        THEN [entered EXCEPT !.pc = "TerminalFailure", !.thrown = nameError]
        ELSE IF bodyError # NoError
        THEN LET k == scheduleCatch(queueName, name, bodyError)
             IN  Logged([resolved EXCEPT !.pc = k.pc, !.thrown = k.thrown], k.log)
        ELSE [resolved EXCEPT !.pc = "Attempting",
                              !.request = BuildRequest(queueName, data, name, seconds),
                              !.attempts = 1]

\* Schedule that takes the queue's entry out of the registry once it has
\* read it
ScheduleDeletingEntry(c, queueName, data, options, skew) ==
    /\ calls[c].pc = "Pending"
    /\ now + skew <= MaxNow
    /\ skew # 0 => WindowPositive(registry[queueName].deduplicationWindowSeconds)
    /\ now' = now + skew
    /\ registry' = [registry EXCEPT ![queueName] = NoEntry]
    /\ calls' = [calls EXCEPT ![c] =
            ScheduledCall(@, queueName, data, options, now, now + skew)]
    /\ UNCHANGED <<definitions, taskNames, handlerOptions, execution>>

\* scheduler(data, options) up to the first createTask call.  Date.now() is
\* read for the name and again for the schedule time; the clock may have
\* advanced by skew between the two reads.
Schedule(c, queueName, data, options, skew) ==
    /\ calls[c].pc = "Pending"
    /\ now + skew <= MaxNow
    /\ skew # 0 => WindowPositive(registry[queueName].deduplicationWindowSeconds)
    /\ now' = now + skew
    /\ calls' = [calls EXCEPT ![c] =
            ScheduledCall(@, queueName, data, options, now, now + skew)]
    /\ UNCHANGED <<definitions, registry, taskNames, handlerOptions, execution>>

----------------------------------------------------------------------------
(* The v1 scheduler: scheduler(data, taskName) *)

\* v1: the final task name, from the taskName argument
finalTaskNameV1(taskConfig, data, taskName, currentTime) ==
    LET w == taskConfig.deduplicationWindowSeconds IN
    IF useDeduplication(taskConfig) /\ ~StrTruthy(taskName)
    THEN Str(generateTaskNameFromPayload(data, w, currentTime))
    ELSE IF StrTruthy(taskName) /\ WindowPositive(w)
    THEN Str(taskName.v \o "-" \o ToString(windowBoundary(currentTime, w.v)))
    ELSE taskName

\* v1: the schedule time is set by the window alone
scheduleTimeSecondsV1(taskConfig, currentTime) ==
    LET w == taskConfig.deduplicationWindowSeconds IN
    IF WindowPositive(w)
    THEN Num((currentTime \div MsPerSecond) + w.v)
    ELSE NoNum

\* v1: the call after scheduler(data, taskName) has run up to its first
\* createTask call, or up to the error that ends it
ScheduledCallV1(call, queueName, data, taskName, nameNow, scheduleNow) ==
    LET taskConfig == registry[queueName]
        generates == useDeduplication(taskConfig) /\ ~StrTruthy(taskName)
        nameError == IF generates /\ data.t # "string"
                     THEN JSONstringifyError(data) ELSE NoError
        bodyError == JSONstringifyError(data)
        name == finalTaskNameV1(taskConfig, data, taskName, nameNow)
        seconds == scheduleTimeSecondsV1(taskConfig, scheduleNow)
        entered == [call EXCEPT !.queueName = queueName,
                                !.data = data,
                                !.options = [taskName |-> taskName,
                                             delaySeconds |-> NoNum]]
        resolved == [entered EXCEPT !.nameNow = nameNow,
                                    !.scheduleNow = scheduleNow,
                                    !.finalTaskName = name]
    IN  IF nameError # NoError
        THEN [entered EXCEPT !.pc = "TerminalFailure", !.thrown = nameError]
        ELSE IF bodyError # NoError
        THEN LET k == scheduleCatch(queueName, name, bodyError)
             IN  Logged([resolved EXCEPT !.pc = k.pc, !.thrown = k.thrown], k.log)
        ELSE [resolved EXCEPT !.pc = "Attempting",
                              !.request = BuildRequest(queueName, data, name, seconds),
                              !.attempts = 1]

\* v1: how the failure of attempt attemptNumber ends, or that it is retried
FailedV1(queueName, name, error, attemptNumber) ==
    LET r == pRetry(queueName, attemptCatch(error), attemptNumber)
    IN  IF r.verdict = "retry"
        THEN [pc |-> "RetryableFailure", thrown |-> NoError]
        ELSE LET k == scheduleCatch(queueName, name, r.error)
             IN  [pc |-> k.pc, thrown |-> k.thrown]

----------------------------------------------------------------------------
(* The attempts of a call *)

\* the options pRetry is given
factor == 2
minTimeout == 1000
maxTimeout == 10000

\* Math.random() + 1 is a number from 1 to 2: it is counted in thousandths,
\* from RandomScale (1.000) to 2 * RandomScale - 1 (1.999)
RandomScale == 1000

Min(a, b) == IF a <= b THEN a ELSE b
Max(a, b) == IF a >= b THEN a ELSE b

\* Math.round(n / d) for n >= 0
Round(n, d) == (2 * n + d) \div (2 * d)

\* the delay without the cap of maxTimeout
createTimeoutUncapped(attemptNumber, random) ==
    Round(random * Max(minTimeout, 1) * factor ^ (attemptNumber - 1),
          RandomScale)

\* the delay p-retry waits after the failure of attempt attemptNumber:
\* Math.min(Math.round(random * Math.max(minTimeout, 1)
\*                     * factor ** (attemptNumber - 1)), maxTimeout)
createTimeout(attemptNumber, random) ==
    Min(Round(random * Max(minTimeout, 1) * factor ^ (attemptNumber - 1),
              RandomScale),
        maxTimeout)

\* what the call does with the failure of its current attempt
Failed(call, error) ==
    LET r == pRetry(call.queueName, attemptCatch(error), call.attempts)
        warned == Logged([call EXCEPT !.lastError = error], r.log)
    IN  IF r.verdict = "retry"
        THEN [warned EXCEPT !.pc = "RetryableFailure"]
        ELSE LET k == scheduleCatch(call.queueName, call.finalTaskName, r.error)
             IN  Logged([warned EXCEPT !.pc = k.pc, !.thrown = k.thrown], k.log)

\* the transport stores the task and createTask returns
CreateTaskOk(c) ==
    LET name == calls[c].request.name IN
    /\ calls[c].pc = "Attempting"
    /\ name.some => name.v \notin taskNames
    /\ taskNames' = IF name.some THEN taskNames \cup {name.v} ELSE taskNames
    /\ calls' = [calls EXCEPT ![c] =
            [@ EXCEPT !.pc = "Succeeded", !.lastError = NoError,
                      !.stored = @ + 1]]
    /\ UNCHANGED <<definitions, registry, now, handlerOptions, execution>>

\* the name exists in the queue: createTask fails with ALREADY_EXISTS
CreateTaskConflict(c) ==
    LET name == calls[c].request.name IN
    /\ calls[c].pc = "Attempting"
    /\ name.some /\ name.v \in taskNames
    /\ calls' = [calls EXCEPT ![c] = Failed(@, ConflictError)]
    /\ UNCHANGED <<definitions, registry, now, taskNames, handlerOptions, execution>>

\* createTask fails with a fault and nothing is stored
CreateTaskFault(c, error) ==
    /\ calls[c].pc = "Attempting"
    /\ calls' = [calls EXCEPT ![c] = Failed(@, error)]
    /\ UNCHANGED <<definitions, registry, now, taskNames, handlerOptions, execution>>

\* the transport stores the task but the answer is lost: createTask fails
\* with a transient fault
CreateTaskLostAck(c, error) ==
    LET name == calls[c].request.name IN
    /\ calls[c].pc = "Attempting"
    /\ name.some => name.v \notin taskNames
    /\ taskNames' = IF name.some THEN taskNames \cup {name.v} ELSE taskNames
    /\ calls' = [calls EXCEPT ![c] = [Failed(@, error) EXCEPT !.stored = @ + 1]]
    /\ UNCHANGED <<definitions, registry, now, handlerOptions, execution>>

\* Retry whose timer never fires: the call waits on
RetryNever(c, random) ==
    /\ calls[c].pc = "RetryableFailure"
    /\ UNCHANGED vars

\* Retry that resolves the name and the schedule time again at each attempt
RetryResolvingAgain(c, random) ==
    LET a == calls[c]
        again == ScheduledCall(PendingCall, a.queueName, a.data, a.options,
                               now, now)
    IN
    /\ a.pc = "RetryableFailure"
    /\ calls' = [calls EXCEPT ![c] =
            [@ EXCEPT !.pc = "Attempting",
                      !.attempts = @ + 1,
                      !.finalTaskName = again.finalTaskName,
                      !.request = again.request,
                      !.delays = Append(@, createTimeout(a.attempts, random))]]
    /\ UNCHANGED <<definitions, registry, now, taskNames, handlerOptions, execution>>

\* p-retry waits for the backoff delay of the failed attempt, computed with
\* the value random of Math.random() + 1, and makes the next attempt.  The
\* delay is recorded; the clock of the model does not follow it.
Retry(c, random) ==
    /\ calls[c].pc = "RetryableFailure"
    /\ calls' = [calls EXCEPT ![c] =
            [@ EXCEPT !.pc = "Attempting",
                      !.attempts = @ + 1,
                      !.delays = Append(@, createTimeout(calls[c].attempts,
                                                         random))]]
    /\ UNCHANGED <<definitions, registry, now, taskNames, handlerOptions, execution>>

\* a whole deduplication window of the queue passes
WindowPasses(queueName) ==
    LET w == registry[queueName].deduplicationWindowSeconds IN
    /\ WindowPositive(w)
    /\ now + w.v * MsPerSecond <= MaxNow
    /\ now' = now + w.v * MsPerSecond
    /\ UNCHANGED <<definitions, registry, taskNames, calls, handlerOptions, execution>>

\* time passes
Tick ==
    /\ now + TickMs <= MaxTicks * TickMs
    /\ now' = now + TickMs
    /\ UNCHANGED <<definitions, registry, taskNames, calls, handlerOptions, execution>>

----------------------------------------------------------------------------
(* The execution side: the options of a handler *)

MINUTE_SECONDS == 60
HOUR_SECONDS == 60 * MINUTE_SECONDS

\* a property of an options object: absent, present with the value
\* undefined, or present with a value
Absent(zero) == [has |-> FALSE, defined |-> FALSE, v |-> zero]
Undefined(zero) == [has |-> TRUE, defined |-> FALSE, v |-> zero]
Value(x) == [has |-> TRUE, defined |-> TRUE, v |-> x]

\* the objects {} of the types RateLimits, RetryConfig, TaskHandlerOptions
NoRateLimits ==
    [maxDispatchesPerSecond |-> Absent(0),
     maxConcurrentDispatches |-> Absent(0)]

NoRetryConfig ==
    [maxAttempts |-> Absent(0),
     minBackoffSeconds |-> Absent(0),
     maxBackoffSeconds |-> Absent(0),
     maxRetrySeconds |-> Absent(0)]

NoOptions ==
    [memory |-> Absent(""),
     timeoutSeconds |-> Absent(0),
     vpcConnector |-> Absent(""),
     rateLimits |-> Absent(NoRateLimits),
     retryConfig |-> Absent(NoRetryConfig)]

defaultHandlerOptions ==
    [memory |-> Value("512MiB"),
     timeoutSeconds |-> Value(30 * MINUTE_SECONDS),
     vpcConnector |-> Undefined(""),
     rateLimits |->
         Value([maxDispatchesPerSecond |-> Value(500),
                maxConcurrentDispatches |-> Value(1000)]),
     retryConfig |->
         Value([maxAttempts |-> Value(10),
                minBackoffSeconds |-> Value(10),
                maxBackoffSeconds |-> Value(HOUR_SECONDS),
                maxRetrySeconds |-> Value(0)])]

\* {...a, ...b}: every own property of b replaces the one of a
spread(a, b) == [k \in DOMAIN a |-> IF b[k].has THEN b[k] ELSE a[k]]

\* ...(x ?? {}) and ...x: undefined and absent spread nothing
orEmpty(x, empty) == IF x.has /\ x.defined THEN x.v ELSE empty

\* createTypedTasks: globalHandlerOptions
globalHandlerOptions(options) ==
    [spread(defaultHandlerOptions, options) EXCEPT
        !.rateLimits =
            Value(spread(defaultHandlerOptions.rateLimits.v,
                         orEmpty(options.rateLimits, NoRateLimits))),
        !.retryConfig =
            Value(spread(defaultHandlerOptions.retryConfig.v,
                         orEmpty(options.retryConfig, NoRetryConfig)))]

\* mergedOptions without the per-field merge of rateLimits and retryConfig
mergedOptionsShallow(globalOptions, options) ==
    spread(spread(defaultHandlerOptions, globalOptions), options)

\* createHandler: mergedOptions
mergedOptions(globalOptions, options) ==
    [spread(spread(defaultHandlerOptions, globalOptions), options) EXCEPT
        !.rateLimits =
            Value(spread(spread(defaultHandlerOptions.rateLimits.v,
                                orEmpty(globalOptions.rateLimits, NoRateLimits)),
                         orEmpty(options.rateLimits, NoRateLimits))),
        !.retryConfig =
            Value(spread(spread(defaultHandlerOptions.retryConfig.v,
                                orEmpty(globalOptions.retryConfig, NoRetryConfig)),
                         orEmpty(options.retryConfig, NoRetryConfig)))]

\* the state of createTypedTasks(options) before and after createHandler
TypedTasks(options) ==
    [created |-> FALSE,
     typedTasksOptions |-> options,
     globalOptions |-> globalHandlerOptions(options),
     queueName |-> "",
     options |-> NoOptions,
     mergedOptions |-> NoOptions]

NoHandler == TypedTasks(NoOptions)

\* createHandler({queueName, options, handler})
CreateHandler(queueName, options) ==
    /\ ~handlerOptions.created
    /\ handlerOptions' =
           [handlerOptions EXCEPT
               !.created = TRUE,
               !.queueName = queueName,
               !.options = options,
               !.mergedOptions = mergedOptions(handlerOptions.globalOptions,
                                               options)]
    /\ UNCHANGED <<definitions, registry, now, taskNames, calls, execution>>

----------------------------------------------------------------------------

(* The execution side: the function onTaskDispatched runs for a queue *)

\* schemas: emailQueue takes z.object({email: z.string()}), syncQueue takes
\* z.string().trim()
schemas ==
    [q \in Queues |-> IF q = "emailQueue" THEN "object" ELSE "trimmedString"]

\* String.prototype.trim, on the strings delivered
trim(s) == IF s = " b " THEN "b" ELSE s

\* schema.safeParse(data)
safeParse(schema, data) ==
    CASE schema = "object" ->
             [success |-> data.t = "object" /\ data.k = "email", data |-> data]
      [] schema = "trimmedString" ->
             [success |-> data.t = "string",
              data |-> IF data.t = "string" THEN JString(trim(data.v)) ELSE data]

NoData == [t |-> "none", k |-> "", v |-> ""]

NoExecution ==
    [pc |-> "Idle",
     data |-> NoData,
     deliveries |-> 0,
     invocations |-> 0,
     handlerArg |-> NoData,
     errors |-> 0,
     handlerError |-> NoError,
     thrown |-> NoError]

\* the function with a validation failure thrown to the transport
taskHandlerThrowing(exec, queueName, data) ==
    LET delivered == [exec EXCEPT !.data = data,
                                  !.deliveries = @ + 1,
                                  !.handlerError = NoError,
                                  !.thrown = NoError] IN
    IF queueName \notin DOMAIN schemas
    THEN [delivered EXCEPT !.pc = "Rejected",
                           !.thrown = Error("Key not found")]
    ELSE LET result == safeParse(schemas[queueName], data) IN
         IF ~result.success
         THEN [delivered EXCEPT
                  !.pc = "Rejected",
                  !.thrown = Error("Zod validation error for queue "
                                   \o queueName)]
         ELSE [delivered EXCEPT !.pc = "Handling",
                                !.invocations = @ + 1,
                                !.handlerArg = result.data]

\* async ({ data }) => ..., up to the call of the handler: got throws on a
\* queue without schema, a validation failure is logged and the function
\* returns, and valid data is handed to the handler
taskHandler(exec, queueName, data) ==
    LET delivered == [exec EXCEPT !.data = data,
                                  !.deliveries = @ + 1,
                                  !.handlerError = NoError,
                                  !.thrown = NoError] IN
    IF queueName \notin DOMAIN schemas
    THEN [delivered EXCEPT !.pc = "Rejected",
                           !.thrown = Error("Key not found")]
    ELSE LET result == safeParse(schemas[queueName], data) IN
         IF ~result.success
         THEN [delivered EXCEPT !.pc = "Completed", !.errors = @ + 1]
         ELSE [delivered EXCEPT !.pc = "Handling",
                                !.invocations = @ + 1,
                                !.handlerArg = result.data]

\* the transport delivers a task to the function of the queue
Dispatch(data) ==
    /\ handlerOptions.created
    /\ execution.pc = "Idle"
    /\ execution' = taskHandler(execution, handlerOptions.queueName, data)
    /\ UNCHANGED <<definitions, registry, now, taskNames, calls, handlerOptions>>

\* the promise of the handler is fulfilled: return handler(result.data)
HandlerResolves ==
    /\ execution.pc = "Handling"
    /\ execution' = [execution EXCEPT !.pc = "Completed"]
    /\ UNCHANGED <<definitions, registry, now, taskNames, calls, handlerOptions>>

\* the handler throws or its promise is rejected, and the function
\* completes all the same
HandlerRejectsSwallowed(error) ==
    /\ execution.pc = "Handling"
    /\ execution' = [execution EXCEPT !.pc = "Completed",
                                      !.handlerError = error]
    /\ UNCHANGED <<definitions, registry, now, taskNames, calls, handlerOptions>>

\* the handler throws or its promise is rejected: the function rejects
HandlerRejects(error) ==
    /\ execution.pc = "Handling"
    /\ execution' = [execution EXCEPT !.pc = "Rejected",
                                      !.handlerError = error,
                                      !.thrown = error]
    /\ UNCHANGED <<definitions, registry, now, taskNames, calls, handlerOptions>>

\* the transport delivers a task again after the function rejected, up to
\* retryConfig.maxAttempts deliveries
Redeliver ==
    /\ execution.pc = "Rejected"
    /\ execution.deliveries < handlerOptions.mergedOptions.retryConfig.v.maxAttempts.v
    /\ execution' = taskHandler(execution, handlerOptions.queueName,
                                execution.data)
    /\ UNCHANGED <<definitions, registry, now, taskNames, calls, handlerOptions>>

----------------------------------------------------------------------------

(* Spec: two scheduling calls race on queues with deduplication *)

Payloads == {JObject("email", "a"), JString("b")}
TaskNameOptions == {NoStr, Str("sync")}

\* emailQueue has a window of one second, syncQueue deduplicates by payload
RaceDefinitions ==
    {[q \in Queues |-> IF q = "emailQueue"
                       THEN OptionsDefinition(Num(1), NoBool)
                       ELSE OptionsDefinition(NoNum, Bool(TRUE))]}

RaceFaults == {Error("14 UNAVAILABLE")}

InitWith(definitionRecords) ==
    /\ definitions \in definitionRecords
    /\ registry = PopulateRegistry(definitions)
    /\ now = 0
    /\ taskNames = {}
    /\ calls = [c \in CallIds |-> PendingCall]
    /\ handlerOptions = NoHandler
    /\ execution = NoExecution

Init == InitWith(RaceDefinitions)

Next ==
    \/ \E c \in CallIds, queueName \in Queues, data \in Payloads,
          taskName \in TaskNameOptions :
            Schedule(c, queueName, data,
                     [taskName |-> taskName, delaySeconds |-> NoNum], 0)
    \/ \E c \in CallIds : CreateTaskOk(c)
    \/ \E c \in CallIds : CreateTaskConflict(c)
    \/ \E c \in CallIds, error \in RaceFaults : CreateTaskFault(c, error)
    \/ \E c \in CallIds, error \in RaceFaults : CreateTaskLostAck(c, error)
    \/ \E c \in CallIds : Retry(c, RandomScale)
    \/ Tick

Spec == Init /\ [][Next]_vars

----------------------------------------------------------------------------
(* SpecRetry: one scheduling call against a transport with every fault *)

DelayOptions == {NoNum, Num(3)}

RetryDefinitions ==
    [Queues -> {SchemaDefinition,
                OptionsDefinition(Num(1), NoBool),
                OptionsDefinition(NoNum, Bool(TRUE))}]

InitRetry == InitWith(RetryDefinitions)

NextRetry ==
    \/ \E queueName \in Queues, data \in Payloads,
          taskName \in TaskNameOptions, delaySeconds \in DelayOptions,
          skew \in {0, TickMs} :
            Schedule(1, queueName, data,
                     [taskName |-> taskName, delaySeconds |-> delaySeconds], skew)
    \/ CreateTaskOk(1)
    \/ CreateTaskConflict(1)
    \/ \E error \in TransientErrors \cup ClientErrors : CreateTaskFault(1, error)
    \/ \E error \in TransientErrors : CreateTaskLostAck(1, error)
    \/ Retry(1, RandomScale)
    \/ Tick

SpecRetry == InitRetry /\ [][NextRetry]_vars

----------------------------------------------------------------------------
(* SpecRetryFair: SpecRetry with a transport that answers every createTask *)
(* call and a timer that fires after every backoff delay                   *)

\* the createTask call of the current attempt returns or throws
CreateTaskEnds ==
    \/ CreateTaskOk(1)
    \/ CreateTaskConflict(1)
    \/ \E error \in TransientErrors \cup ClientErrors : CreateTaskFault(1, error)
    \/ \E error \in TransientErrors : CreateTaskLostAck(1, error)

SpecRetryFair ==
    /\ InitRetry
    /\ [][NextRetry]_vars
    /\ WF_vars(CreateTaskEnds)
    /\ WF_vars(Retry(1, RandomScale))

----------------------------------------------------------------------------

(* SpecResolve: one scheduling call, every configuration and option *)

WideWindows == {NoNum, Num(-1), Num(0), Num(1), Num(2)}
WideUseDeduplication == {NoBool, Bool(FALSE), Bool(TRUE)}
WideTaskNameOptions == {NoStr, Str(""), Str("sync")}
WideDelayOptions == {NoNum, Num(-1), Num(0), Num(1), Num(5)}

WideDefinitions ==
    {SchemaDefinition, ObjectDefinition}
    \cup {OptionsDefinition(w, u) : w \in WideWindows, u \in WideUseDeduplication}

\* a registry filled with taskRegistry.set(queueName, options), as a caller
\* of createSchedulerFactory does
DirectRegistry(defs) ==
    [q \in Queues |-> IF defs[q].hasOptions
                      THEN TaskConfig(defs[q].deduplicationWindowSeconds,
                                      defs[q].useDeduplication)
                      ELSE NoEntry]

InitResolve ==
    /\ definitions \in [Queues -> WideDefinitions]
    /\ registry \in {PopulateRegistry(definitions), DirectRegistry(definitions)}
    /\ now = 0
    /\ taskNames = {}
    /\ calls = [c \in CallIds |-> PendingCall]
    /\ handlerOptions = NoHandler
    /\ execution = NoExecution

NextResolve ==
    \/ \E queueName \in Queues, data \in Payloads,
          taskName \in WideTaskNameOptions, delaySeconds \in WideDelayOptions,
          skew \in {0, TickMs} :
            Schedule(1, queueName, data,
                     [taskName |-> taskName, delaySeconds |-> delaySeconds], skew)
    \/ CreateTaskOk(1)
    \/ Tick

SpecResolve == InitResolve /\ [][NextResolve]_vars

----------------------------------------------------------------------------
(* SpecWindows: two scheduling calls, one after windows of the other *)

WindowDefinitions ==
    [Queues -> {SchemaDefinition,
                OptionsDefinition(NoNum, Bool(TRUE)),
                OptionsDefinition(Num(1), NoBool),
                OptionsDefinition(Num(2), NoBool)}]

InitWindows == InitWith(WindowDefinitions)

NextWindows ==
    \/ \E c \in CallIds, queueName \in Queues, data \in Payloads,
          taskName \in TaskNameOptions, delaySeconds \in DelayOptions :
            Schedule(c, queueName, data,
                     [taskName |-> taskName, delaySeconds |-> delaySeconds], 0)
    \/ \E c \in CallIds : CreateTaskOk(c)
    \/ \E c \in CallIds : CreateTaskConflict(c)
    \/ \E queueName \in Queues : WindowPasses(queueName)
    \/ Tick

SpecWindows == InitWindows /\ [][NextWindows]_vars

----------------------------------------------------------------------------
(* SpecPayloads: two scheduling calls with payloads of every kind *)

\* strings, a number and an object, among them a string that reads like
\* the number and a string that reads like the object's serialization
WidePayloads ==
    {JObject("email", "a"), JString("b"), JString("{\"email\":\"a\"}"),
     JNumber("42"), JString("42")}

PayloadDefinitions ==
    [Queues -> {OptionsDefinition(NoNum, Bool(TRUE)),
                OptionsDefinition(Num(1), NoBool)}]

InitPayloads == InitWith(PayloadDefinitions)

NextPayloads ==
    \/ \E c \in CallIds, queueName \in Queues, data \in WidePayloads :
            Schedule(c, queueName, data,
                     [taskName |-> NoStr, delaySeconds |-> NoNum], 0)
    \/ \E c \in CallIds : CreateTaskOk(c)
    \/ \E c \in CallIds : CreateTaskConflict(c)
    \/ Tick

SpecPayloads == InitPayloads /\ [][NextPayloads]_vars

----------------------------------------------------------------------------
(* SpecSerialize: one scheduling call with payloads JSON cannot serialize *)

SerializePayloads ==
    {JObject("email", "a"), JCircular("self"), JCircular("ALREADY_EXISTS")}

InitSerialize == InitWith(RetryDefinitions)

NextSerialize ==
    \/ \E queueName \in Queues, data \in SerializePayloads,
          taskName \in TaskNameOptions :
            Schedule(1, queueName, data,
                     [taskName |-> taskName, delaySeconds |-> NoNum], 0)
    \/ CreateTaskOk(1)
    \/ CreateTaskConflict(1)
    \/ \E error \in TransientErrors : CreateTaskFault(1, error)
    \/ \E error \in TransientErrors : CreateTaskLostAck(1, error)
    \/ Retry(1, RandomScale)
    \/ Tick

SpecSerialize == InitSerialize /\ [][NextSerialize]_vars

----------------------------------------------------------------------------
(* SpecEnvelope: one scheduling call, and the body as the receiver reads it *)

EnvelopePayloads ==
    {JObject("email", "a"), JString("b"), JNumber("42"), JUndefined,
     JDate("2026-01-01T00:00:00.000Z")}

\* the values JSON.parse can return for the bodies submitted
JSONValues ==
    {JObject("email", "a"), JString("b"), JNumber("42"),
     JString("2026-01-01T00:00:00.000Z")}

\* Buffer.from(body, "base64").toString()
fromBase64(body) == body[2]

\* JSON.parse of a serialized envelope: its top-level keys and the value
\* under data
JSONparseEnvelope(s) ==
    IF s = "{}"
    THEN [keys |-> {}, data |-> JUndefined]
    ELSE [keys |-> {"data"},
          data |-> CHOOSE v \in JSONValues : JSONstringifyEnvelope(v) = s]

InitEnvelope == InitWith(RetryDefinitions)

NextEnvelope ==
    \/ \E queueName \in Queues, data \in EnvelopePayloads,
          taskName \in TaskNameOptions :
            Schedule(1, queueName, data,
                     [taskName |-> taskName, delaySeconds |-> NoNum], 0)
    \/ CreateTaskOk(1)
    \/ Tick

SpecEnvelope == InitEnvelope /\ [][NextEnvelope]_vars

----------------------------------------------------------------------------

(* SpecBackoff: one scheduling call whose attempts fail, with jitter *)

\* values of Math.random() + 1, in thousandths
Randoms == {RandomScale, RandomScale + 1, 1500, 2 * RandomScale - 1}

InitBackoff == InitWith(RaceDefinitions)

NextBackoff ==
    \/ \E queueName \in Queues :
          Schedule(1, queueName, JObject("email", "a"),
                   [taskName |-> NoStr, delaySeconds |-> NoNum], 0)
    \/ CreateTaskOk(1)
    \/ \E error \in TransientErrors : CreateTaskFault(1, error)
    \/ \E random \in Randoms : Retry(1, random)

SpecBackoff == InitBackoff /\ [][NextBackoff]_vars

----------------------------------------------------------------------------

(* SpecHandler: one handler is created and one task is delivered to it *)

HandlerQueues == Queues \cup {"otherQueue"}

TypedTasksOptionChoices ==
    {NoOptions,
     [NoOptions EXCEPT
         !.memory = Value("1GiB"),
         !.rateLimits =
             Value([NoRateLimits EXCEPT
                       !.maxConcurrentDispatches = Value(5)]),
         !.retryConfig =
             Value([NoRetryConfig EXCEPT !.maxAttempts = Value(3)])],
     [NoOptions EXCEPT
         !.timeoutSeconds = Undefined(0),
         !.vpcConnector = Value("vpc"),
         !.retryConfig = Undefined(NoRetryConfig)]}

HandlerOptionChoices ==
    {NoOptions,
     [NoOptions EXCEPT
         !.timeoutSeconds = Value(MINUTE_SECONDS),
         !.rateLimits =
             Value([NoRateLimits EXCEPT
                       !.maxDispatchesPerSecond = Value(1)]),
         !.retryConfig =
             Value([NoRetryConfig EXCEPT !.maxAttempts = Value(2)])],
     [NoOptions EXCEPT
         !.memory = Undefined(""),
         !.rateLimits =
             Value([NoRateLimits EXCEPT
                       !.maxConcurrentDispatches = Undefined(0)]),
         !.retryConfig =
             Value([NoRetryConfig EXCEPT !.minBackoffSeconds = Value(1)])]}

DeliveredPayloads ==
    {JObject("email", "a"), JObject("name", "a"), JString(" b "), JNumber("1")}

HandlerErrors == {Error("handler failed"), TypeError("x is not a function")}

InitHandler ==
    /\ definitions \in RaceDefinitions
    /\ registry = PopulateRegistry(definitions)
    /\ now = 0
    /\ taskNames = {}
    /\ calls = [c \in CallIds |-> PendingCall]
    /\ handlerOptions \in {TypedTasks(o) : o \in TypedTasksOptionChoices}
    /\ execution = NoExecution

NextHandler ==
    \/ \E queueName \in HandlerQueues, options \in HandlerOptionChoices :
          CreateHandler(queueName, options)
    \/ \E data \in DeliveredPayloads : Dispatch(data)
    \/ HandlerResolves
    \/ \E error \in HandlerErrors : HandlerRejects(error)
    \/ Redeliver

SpecHandler == InitHandler /\ [][NextHandler]_vars

----------------------------------------------------------------------------

(* SpecClient: the client of createTypedTasks, for several sets of queue *)
(* names, and the factories called through it                             *)

\* the own properties of tasksProxy: the two factories, then every queue
\* name set to true
tasksProxy(defs) ==
    [n \in {"createScheduler", "createHandler"} \cup DOMAIN defs |->
        IF n \in DOMAIN defs THEN "true" ELSE "function"]

\* properties an object literal inherits from Object.prototype
ObjectPrototype == {"toString", "constructor", "hasOwnProperty"}

\* name in object
In(name, object) == name \in DOMAIN object \/ name \in ObjectPrototype

\* typeof object[name] = "function", for an own property
Callable(object, name) == name \in DOMAIN object /\ object[name] = "function"

ClientQueueNames ==
    {{"emailQueue"},
     {"emailQueue", "syncQueue"},
     {"emailQueue", "createScheduler"},
     {"createHandler"},
     {"emailQueue", "toString"}}

ClientDefinitions ==
    UNION {[names -> {SchemaDefinition, OptionsDefinition(NoNum, Bool(TRUE))}] :
              names \in ClientQueueNames}

InitClient == InitWith(ClientDefinitions)

\* tasks.createScheduler(queueName)(data)
ClientSchedule(queueName, data) ==
    /\ Callable(tasksProxy(definitions), "createScheduler")
    /\ Schedule(1, queueName, data,
                [taskName |-> NoStr, delaySeconds |-> NoNum], 0)

\* tasks.createHandler({queueName, options, handler})
ClientCreateHandler(queueName, options) ==
    /\ Callable(tasksProxy(definitions), "createHandler")
    /\ CreateHandler(queueName, options)

NextClient ==
    \/ \E queueName \in DOMAIN definitions, data \in Payloads :
          ClientSchedule(queueName, data)
    \/ CreateTaskOk(1)
    \/ \E queueName \in DOMAIN definitions, options \in HandlerOptionChoices :
          ClientCreateHandler(queueName, options)

SpecClient == InitClient /\ [][NextClient]_vars

----------------------------------------------------------------------------

(* The retry protocol *)

\* C1: once an attempt of a call has failed with the ALREADY_EXISTS
\* conflict, the call is resolved (Deduplicated) with nothing thrown, and it
\* makes no further createTask attempt; a call whose first attempt is
\* answered with the conflict ends after that one attempt.
C1_ConflictEndsRetries ==
    [][\A c \in CallIds :
        LET a == calls[c]
            b == calls'[c]
        IN  /\ b.lastError = ConflictError =>
                    /\ b.pc = "Deduplicated"
                    /\ b.thrown = NoError
                    /\ b.errors = 0
            /\ a.lastError = ConflictError => b.attempts = a.attempts]_vars

\* a call that was answered with the conflict at its first attempt
C1_Witness ==
    \E c \in CallIds :
        /\ calls[c].pc = "Deduplicated"
        /\ calls[c].lastError = ConflictError
        /\ calls[c].attempts = 1

\* C2: a call never makes more than Retries + 1 createTask attempts, and a
\* call that ended on a transient error ended as a failure after exactly
\* Retries + 1 attempts (one attempt and five retries).
C2_RetryBound ==
    \A c \in CallIds :
        LET a == calls[c] IN
        /\ a.attempts <= Retries + 1
        /\ a.pc = "RetryableFailure" => a.attempts <= Retries
        /\ (a.lastError \in TransientErrors
            /\ a.pc \notin {"Attempting", "RetryableFailure"}) =>
                /\ a.pc = "TerminalFailure"
                /\ a.attempts = Retries + 1

\* a call that failed after six attempts, every one answered with a fault
C2_Witness ==
    \E c \in CallIds :
        /\ calls[c].pc = "TerminalFailure"
        /\ calls[c].attempts = Retries + 1
        /\ calls[c].warns = Retries + 1
        /\ calls[c].stored = 0

\* C3: when the last of the Retries + 1 attempts has failed with a transient
\* error, the call is rejected with that attempt's error, and logs one
\* error line naming the queue and the error message; it is not a success.
C3_ExhaustionRejects ==
    \A c \in CallIds :
        LET a == calls[c] IN
        (a.attempts = Retries + 1 /\ a.pc # "Attempting"
         /\ a.lastError \in TransientErrors) =>
            /\ a.pc = "TerminalFailure"
            /\ a.thrown = a.lastError
            /\ a.errors = 1
            /\ a.infos = 0
            /\ a.lastLog = LogLine("error", a.queueName, 0, 0, a.lastError.message)

\* a call rejected with the DEADLINE_EXCEEDED fault of its sixth attempt
C3_Witness ==
    \E c \in CallIds :
        /\ calls[c].pc = "TerminalFailure"
        /\ calls[c].attempts = Retries + 1
        /\ calls[c].thrown = Error("4 DEADLINE_EXCEEDED")
        /\ calls[c].errors = 1

\* C4: a transient error with retries left is never visible to the caller:
\* the call goes on to another attempt; when an attempt returns, the call is
\* resolved with nothing thrown and no error line, and makes no attempt
\* after it.
C4_TransientTolerated ==
    [][\A c \in CallIds :
        LET a == calls[c]
            b == calls'[c]
        IN  /\ (b.lastError \in TransientErrors /\ b.attempts <= Retries) =>
                    /\ b.pc \in {"RetryableFailure", "Attempting"}
                    /\ b.thrown = NoError
                    /\ b.errors = 0
            /\ b.pc = "Succeeded" =>
                    /\ b.lastError = NoError
                    /\ b.thrown = NoError
                    /\ b.errors = 0
                    /\ b.infos = 0
            /\ a.pc = "Succeeded" => b = a]_vars

\* a call that succeeded at a later attempt, after transient failures
C4_Witness ==
    \E c \in CallIds :
        /\ calls[c].pc = "Succeeded"
        /\ calls[c].attempts >= 3
        /\ calls[c].warns = calls[c].attempts - 1
        /\ calls[c].stored = 1

----------------------------------------------------------------------------
(* Deduplication of racing calls *)

\* the window of a call's queue is w > 0 and the call read the clock in
\* window bucket floor(nameNow / (w * 1000))
InBucket(call, bucket) ==
    LET w == registry[call.queueName].deduplicationWindowSeconds IN
    /\ w.some /\ w.v > 0
    /\ call.nameNow \div (w.v * MsPerSecond) = bucket

\* two calls for the same logical payload, or the same caller name, on the
\* same queue with deduplication, in the same window if the queue has one
SameIdentity(a, b) ==
    LET w == registry[a.queueName].deduplicationWindowSeconds
        u == registry[a.queueName].useDeduplication
    IN  /\ a.pc # "Pending" /\ b.pc # "Pending"
        /\ a.queueName = b.queueName
        /\ a.options.taskName = b.options.taskName
        /\ IF StrTruthy(a.options.taskName) THEN TRUE
           ELSE ((u.some /\ u.v) \/ (w.some /\ w.v > 0)) /\ a.data = b.data
        /\ (w.some /\ w.v > 0) =>
                \E bucket \in 0 .. MaxTicks : InBucket(a, bucket) /\ InBucket(b, bucket)

\* C5 as claimed: of the calls racing for one identity at most one creates
\* a task, and none of them observes a failure.
C5_Original ==
    \A c1, c2 \in CallIds :
        (c1 # c2 /\ SameIdentity(calls[c1], calls[c2])) =>
            /\ calls[c1].stored + calls[c2].stored <= 1
            /\ calls[c1].pc # "TerminalFailure"

\* C5, amended: of the calls racing for one identity at most one creates a
\* task; a call answered with the conflict is resolved; a call fails only
\* on an error other than the conflict, and on a transient error only after
\* Retries + 1 attempts.
C5_RaceCreatesOnce ==
    \A c1, c2 \in CallIds :
        (c1 # c2 /\ SameIdentity(calls[c1], calls[c2])) =>
            /\ calls[c1].stored + calls[c2].stored <= 1
            /\ calls[c1].lastError = ConflictError => calls[c1].pc = "Deduplicated"
            /\ calls[c1].pc = "TerminalFailure" =>
                    /\ calls[c1].lastError \notin {NoError, ConflictError}
                    /\ calls[c1].lastError \in TransientErrors =>
                            calls[c1].attempts = Retries + 1

\* two calls with the same caller name in one window of emailQueue: one
\* created the task, the other was answered with the conflict
C5_Witness ==
    \E c1, c2 \in CallIds :
        /\ c1 # c2 /\ SameIdentity(calls[c1], calls[c2])
        /\ calls[c1].queueName = "emailQueue"
        /\ calls[c1].options.taskName = Str("sync")
        /\ calls[c1].data # calls[c2].data
        /\ calls[c1].pc = "Succeeded" /\ calls[c1].stored = 1
        /\ calls[c2].pc = "Deduplicated" /\ calls[c2].stored = 0

\* C6 as claimed: two calls with the same payload and no caller name on a
\* queue with window w, made less than w seconds apart, create at most one
\* task.
C6_Original ==
    \A c1, c2 \in CallIds :
        LET a == calls[c1]
            b == calls[c2]
            w == registry[a.queueName].deduplicationWindowSeconds
        IN  (/\ c1 # c2 /\ a.pc # "Pending" /\ b.pc # "Pending"
             /\ a.queueName = b.queueName /\ a.data = b.data
             /\ ~a.options.taskName.some /\ ~b.options.taskName.some
             /\ w.some /\ w.v > 0
             /\ a.nameNow - b.nameNow < w.v * MsPerSecond
             /\ b.nameNow - a.nameNow < w.v * MsPerSecond) =>
                a.stored + b.stored <= 1

\* C6, amended: two calls with the same payload and no caller name on a
\* queue with window w, made in the same epoch-aligned window
\* (floor(now / (w * 1000)) is the same), create at most one task.
C6_SameWindowCreatesOnce ==
    \A c1, c2 \in CallIds :
        LET a == calls[c1]
            b == calls[c2]
        IN  (/\ c1 # c2 /\ a.pc # "Pending" /\ b.pc # "Pending"
             /\ a.queueName = b.queueName /\ a.data = b.data
             /\ ~a.options.taskName.some /\ ~b.options.taskName.some
             /\ \E bucket \in 0 .. MaxTicks : InBucket(a, bucket) /\ InBucket(b, bucket)) =>
                a.stored + b.stored <= 1

\* two calls with the same payload at different times of one window: the
\* first created the task, the second was answered with the conflict
C6_Witness ==
    \E c1, c2 \in CallIds :
        /\ c1 # c2
        /\ calls[c1].queueName = "emailQueue" /\ calls[c2].queueName = "emailQueue"
        /\ calls[c1].data = calls[c2].data
        /\ ~calls[c1].options.taskName.some /\ ~calls[c2].options.taskName.some
        /\ calls[c1].nameNow < calls[c2].nameNow
        /\ InBucket(calls[c1], 0) /\ InBucket(calls[c2], 0)
        /\ calls[c1].stored = 1
        /\ calls[c2].pc = "Deduplicated"

----------------------------------------------------------------------------
(* Resolution of the schedule time and of the identity *)

\* the registry's window and useDeduplication of the queue of a call
WindowOf(call) == registry[call.queueName].deduplicationWindowSeconds
UseDeduplicationOf(call) == registry[call.queueName].useDeduplication

\* effective deduplication: useDeduplication is true or the window is > 0
EffectiveDeduplication(call) ==
    \/ UseDeduplicationOf(call).some /\ UseDeduplicationOf(call).v
    \/ WindowOf(call).some /\ WindowOf(call).v > 0

C8_DelayHonored ==
    \A c \in CallIds :
        LET a == calls[c]
            d == a.options.delaySeconds
        IN  (a.pc # "Pending" /\ (~WindowOf(a).some \/ WindowOf(a).v = 0)) =>
                IF d.some /\ d.v > 0
                THEN a.request.scheduleTime =
                        Num((a.scheduleNow \div MsPerSecond) + d.v)
                ELSE a.request.scheduleTime = NoNum

\* a call with delaySeconds 5 on a queue whose window is 0, made at 1000 ms
C8_Witness ==
    \E c \in CallIds :
        /\ calls[c].pc # "Pending"
        /\ WindowOf(calls[c]) = Num(0)
        /\ calls[c].options.delaySeconds = Num(5)
        /\ calls[c].scheduleNow = 2 * TickMs
        /\ calls[c].request.scheduleTime = Num(((2 * TickMs) \div MsPerSecond) + 5)

\* C9: without effective deduplication a call with no caller name sends a
\* task without a name, and a call with a caller name sends exactly that
\* name, with no suffix.
C9_NoDeduplicationIdentity ==
    \A c \in CallIds :
        LET a == calls[c]
            n == a.options.taskName
        IN  (a.pc # "Pending" /\ ~EffectiveDeduplication(a)) =>
                /\ ~n.some => (a.finalTaskName = NoStr /\ a.request.name = NoStr)
                /\ StrTruthy(n) =>
                        /\ a.finalTaskName = n
                        /\ a.request.name = Str(taskPath(a.queueName, n.v))

\* a call named "sync" on a queue with a negative window and useDeduplication
\* false
C9_Witness ==
    \E c \in CallIds :
        /\ calls[c].pc # "Pending"
        /\ WindowOf(calls[c]) = Num(-1)
        /\ UseDeduplicationOf(calls[c]) = Bool(FALSE)
        /\ calls[c].options.taskName = Str("sync")
        /\ calls[c].request.name = Str("queues/" \o calls[c].queueName \o "/tasks/sync")

\* C10: with effective deduplication and no caller name the identity is the
\* MD5 fingerprint of the payload (of the string itself, or of the JSON
\* serialization), followed by "-" and floor(now / (w * 1000)) if and only
\* if the window w is > 0.
C10_GeneratedIdentity ==
    \A c \in CallIds :
        LET a == calls[c]
            w == WindowOf(a)
            fingerprint ==
                md5(IF a.data.t = "string" THEN a.data.v ELSE JSONstringify(a.data))
            identity ==
                IF w.some /\ w.v > 0
                THEN fingerprint \o "-"
                        \o ToString(a.nameNow \div (w.v * MsPerSecond))
                ELSE fingerprint
        IN  (a.pc # "Pending" /\ EffectiveDeduplication(a)
             /\ ~a.options.taskName.some) =>
                /\ a.finalTaskName = Str(identity)
                /\ a.request.name = Str(taskPath(a.queueName, identity))

\* a call with an object payload in the second window of a queue with a
\* window of one second
C10_Witness ==
    \E c \in CallIds :
        /\ calls[c].pc # "Pending"
        /\ WindowOf(calls[c]) = Num(1)
        /\ ~calls[c].options.taskName.some
        /\ calls[c].data = JObject("email", "a")
        /\ calls[c].nameNow = 2 * TickMs
        /\ calls[c].finalTaskName =
                Str("md5({\"email\":\"a\"})-" \o ToString((2 * TickMs) \div MsPerSecond))

\* C11: with effective deduplication and a caller name the identity is the
\* caller name, not a fingerprint of the payload, followed by "-" and
\* floor(now / (w * 1000)) if and only if the window w is > 0.
C11_CallerIdentity ==
    \A c \in CallIds :
        LET a == calls[c]
            w == WindowOf(a)
            n == a.options.taskName
            identity ==
                IF w.some /\ w.v > 0
                THEN n.v \o "-" \o ToString(a.nameNow \div (w.v * MsPerSecond))
                ELSE n.v
        IN  (a.pc # "Pending" /\ EffectiveDeduplication(a)
             /\ n.some /\ n.v # "") =>
                /\ a.finalTaskName = Str(identity)
                /\ a.request.name = Str(taskPath(a.queueName, identity))

\* a call named "sync" in the second window of a queue with a window of one
\* second
C11_Witness ==
    \E c \in CallIds :
        /\ calls[c].pc # "Pending"
        /\ WindowOf(calls[c]) = Num(1)
        /\ calls[c].options.taskName = Str("sync")
        /\ calls[c].nameNow = 2 * TickMs
        /\ calls[c].finalTaskName =
                Str("sync-" \o ToString((2 * TickMs) \div MsPerSecond))

\* C12: a window > 0 makes deduplication effective whatever useDeduplication
\* says.  The registry createTypedTasks populates stores useDeduplication
\* true for every definition with a window > 0, and a call without a caller
\* name on a registry entry with a window > 0 gets the generated identity
\* with the window suffix, also when the entry stores useDeduplication false
\* or nothing.
C12_WindowImpliesDeduplication ==
    /\ registry = PopulateRegistry(definitions) =>
            \A q \in Queues :
                LET o == definitions[q] IN
                (~o.isSchema /\ o.hasOptions
                 /\ o.deduplicationWindowSeconds.some
                 /\ o.deduplicationWindowSeconds.v > 0) =>
                    registry[q].useDeduplication = Bool(TRUE)
    /\ \A q \in Queues :
            (registry[q].deduplicationWindowSeconds.some
             /\ registry[q].deduplicationWindowSeconds.v > 0) =>
                useDeduplication(registry[q])
    /\ \A c \in CallIds :
            LET a == calls[c]
                w == WindowOf(a)
                fingerprint ==
                    md5(IF a.data.t = "string" THEN a.data.v
                        ELSE JSONstringify(a.data))
            IN  (a.pc # "Pending" /\ w.some /\ w.v > 0
                 /\ ~a.options.taskName.some) =>
                    a.finalTaskName =
                        Str(fingerprint \o "-"
                            \o ToString(a.nameNow \div (w.v * MsPerSecond)))

\* a call without a caller name on a registry entry that stores a window of
\* one second and useDeduplication false
C12_Witness ==
    \E c \in CallIds :
        /\ calls[c].pc # "Pending"
        /\ registry[calls[c].queueName] = TaskConfig(Num(1), Bool(FALSE))
        /\ ~calls[c].options.taskName.some
        /\ calls[c].data = JString("b")
        /\ calls[c].finalTaskName = Str("md5(b)-0")

\* t lies in the k-th epoch-aligned interval of w seconds
InInterval(t, w, k) ==
    k * w * MsPerSecond <= t /\ t < (k + 1) * w * MsPerSecond

\* two clock readings in the same epoch-aligned interval of w seconds
SameInterval(t1, t2, w) ==
    \E k \in 0..(MaxNow \div MsPerSecond) :
        InInterval(t1, w, k) /\ InInterval(t2, w, k)

\* C13: on a queue with a window w > 0, two calls with the same payload and
\* the same caller name made in the same epoch-aligned interval of w
\* seconds have the same window bucket and the same identity; when the
\* second is made w * 1000 ms after the first its bucket is larger by
\* exactly 1; and two calls made in different intervals have different
\* identities, so the later one is never answered with the conflict.
C13_WindowStability ==
    \A c1 \in CallIds, c2 \in CallIds :
        LET a == calls[c1]
            b == calls[c2]
            w == WindowOf(a)
        IN  (a.pc # "Pending" /\ b.pc # "Pending"
             /\ a.queueName = b.queueName /\ a.data = b.data
             /\ a.options.taskName = b.options.taskName
             /\ w.some /\ w.v > 0) =>
                /\ SameInterval(a.nameNow, b.nameNow, w.v) =>
                        /\ windowBoundary(a.nameNow, w.v)
                                = windowBoundary(b.nameNow, w.v)
                        /\ a.finalTaskName = b.finalTaskName
                /\ b.nameNow = a.nameNow + w.v * MsPerSecond =>
                        windowBoundary(b.nameNow, w.v)
                            = windowBoundary(a.nameNow, w.v) + 1
                /\ ~SameInterval(a.nameNow, b.nameNow, w.v) =>
                        /\ a.finalTaskName # b.finalTaskName
                        /\ a.request.name # b.request.name
                        /\ b.pc # "Deduplicated"
                        /\ b.pc = "Attempting" =>
                                b.request.name.v \notin taskNames

\* the same payload stored twice on a queue with a window of two seconds,
\* the second call made exactly one window after the first
C13_Witness ==
    \E c1 \in CallIds, c2 \in CallIds :
        /\ calls[c1].pc = "Succeeded" /\ calls[c2].pc = "Succeeded"
        /\ calls[c1].queueName = calls[c2].queueName
        /\ calls[c1].data = calls[c2].data
        /\ calls[c1].options.taskName = calls[c2].options.taskName
        /\ WindowOf(calls[c1]) = Num(2)
        /\ calls[c2].nameNow = calls[c1].nameNow + 2 * MsPerSecond
        /\ calls[c1].finalTaskName # calls[c2].finalTaskName

\* C14: on a queue with a window w > 0 the request carries
\* scheduleTime.seconds = floor(now / 1000) + w, and that time is not
\* earlier than the end, (bucket + 1) * w seconds, of the epoch-aligned
\* bucket written in the suffix of the task's identity.
C14_ExecutesAfterWindow ==
    \A c \in CallIds :
        LET a == calls[c]
            w == WindowOf(a)
            n == a.options.taskName
            base == IF n.some /\ n.v # "" THEN n.v
                    ELSE md5(IF a.data.t = "string" THEN a.data.v
                             ELSE JSONstringify(a.data))
            bucket == a.nameNow \div (w.v * MsPerSecond)
        IN  (a.pc # "Pending" /\ w.some /\ w.v > 0) =>
                /\ a.finalTaskName = Str(base \o "-" \o ToString(bucket))
                /\ a.request.scheduleTime.some
                /\ a.request.scheduleTime.v
                        = (a.scheduleNow \div MsPerSecond) + w.v
                /\ a.request.scheduleTime.v * MsPerSecond
                        >= (bucket + 1) * w.v * MsPerSecond

\* a call on a queue with a window of two seconds whose name was made at
\* 500 ms (bucket 0, ending at second 2) and whose schedule time was made at
\* 1000 ms: it is scheduled for second 3
C14_Witness ==
    \E c \in CallIds :
        /\ calls[c].pc # "Pending"
        /\ WindowOf(calls[c]) = Num(2)
        /\ calls[c].nameNow = TickMs
        /\ calls[c].scheduleNow = 2 * TickMs
        /\ calls[c].request.scheduleTime
                = Num(((2 * TickMs) \div MsPerSecond) + 2)

C16_DistinctPayloadsDistinctFingerprints ==
    \A c1 \in CallIds, c2 \in CallIds :
        LET a == calls[c1]
            b == calls[c2]
        IN  (a.pc # "Pending" /\ b.pc # "Pending"
             /\ a.queueName = b.queueName /\ a.nameNow = b.nameNow
             /\ a.data # b.data) =>
                a.finalTaskName # b.finalTaskName

\* the task of a string payload dropped as a duplicate of the stored task
\* of an object payload
C16_Witness ==
    \E c1 \in CallIds, c2 \in CallIds :
        /\ calls[c1].pc = "Succeeded" /\ calls[c2].pc = "Deduplicated"
        /\ calls[c1].data = JObject("email", "a")
        /\ calls[c2].data = JString("{\"email\":\"a\"}")
        /\ calls[c1].request.name = calls[c2].request.name
        /\ calls[c1].request.body # calls[c2].request.body

----------------------------------------------------------------------------
(* The task registry *)

\* C17: the registry is the one createTypedTasks populated from the
\* definitions, and no step of any scheduling call (the call itself, an
\* attempt, a fault, a conflict, a retry) adds, removes or changes an entry.
C17_RegistryReadOnly ==
    /\ registry = PopulateRegistry(definitions)
    /\ [][registry' = registry /\ definitions' = definitions]_vars

\* two calls raced for one identity, one stored it, the other was answered
\* with the conflict, and the registry is still the populated one
C17_Witness ==
    \E c1 \in CallIds, c2 \in CallIds :
        /\ calls[c1].pc = "Succeeded" /\ calls[c2].pc = "Deduplicated"
        /\ calls[c1].queueName = "emailQueue"
        /\ calls[c2].queueName = "emailQueue"
        /\ registry = PopulateRegistry(definitions)
        /\ registry["emailQueue"] = TaskConfig(Num(1), Bool(TRUE))

\* C18: a queue defined by a bare schema, or by an object without options,
\* has no registry entry, and a call on it with no caller name and no
\* delaySeconds sends a task with neither a name nor a scheduleTime.
C18_NoEntryNoDeduplication ==
    /\ \A q \in Queues :
            (definitions[q].isSchema \/ ~definitions[q].hasOptions) =>
                /\ registry[q] = NoEntry
                /\ ~useDeduplication(registry[q])
    /\ \A c \in CallIds :
            LET a == calls[c] IN
            (a.pc # "Pending" /\ ~registry[a.queueName].present
             /\ ~a.options.taskName.some /\ ~a.options.delaySeconds.some) =>
                /\ a.finalTaskName = NoStr
                /\ a.request.name = NoStr
                /\ a.request.scheduleTime = NoNum

\* a stored task without name and scheduleTime on a queue defined by an
\* object without options
C18_Witness ==
    \E c \in CallIds :
        /\ calls[c].pc = "Succeeded"
        /\ definitions[calls[c].queueName] = ObjectDefinition
        /\ registry = PopulateRegistry(definitions)
        /\ ~calls[c].options.taskName.some
        /\ ~calls[c].options.delaySeconds.some
        /\ calls[c].request.name = NoStr
        /\ calls[c].request.scheduleTime = NoNum

----------------------------------------------------------------------------
(* Malformed input *)

\* C19: a call whose payload JSON.stringify cannot serialize fails at once:
\* it ends with the error thrown to the caller, it never calls createTask
\* and it retries nothing.
C19_UnserializableFailsFast ==
    \A c \in CallIds :
        LET a == calls[c] IN
        (a.pc # "Pending" /\ JSONstringifyError(a.data) # NoError) =>
            /\ a.pc = "TerminalFailure"
            /\ a.thrown = JSONstringifyError(a.data)
            /\ a.attempts = 0
            /\ a.stored = 0
            /\ a.warns = 0

\* a call with a circular payload that ended as a skipped duplicate: nothing
\* thrown, one console.info, createTask never called
C19_Witness ==
    \E c \in CallIds :
        /\ calls[c].data = JCircular("ALREADY_EXISTS")
        /\ calls[c].pc = "Deduplicated"
        /\ calls[c].thrown = NoError
        /\ calls[c].infos = 1
        /\ calls[c].attempts = 0

\* C20: a call on a queue whose registry entry has a negative window fails
\* before any createTask call.
C20_NegativeWindowFailsFast ==
    \A c \in CallIds :
        LET a == calls[c] IN
        (a.pc # "Pending" /\ WindowOf(a).some /\ WindowOf(a).v < 0) =>
            /\ a.pc = "TerminalFailure"
            /\ a.attempts = 0
            /\ a.stored = 0

\* a task stored by a call on a queue that createTypedTasks registered with
\* a window of -1: no scheduleTime, and no name without useDeduplication
C20_Witness ==
    \E c \in CallIds :
        /\ calls[c].pc = "Succeeded"
        /\ definitions[calls[c].queueName] = OptionsDefinition(Num(-1), NoBool)
        /\ registry = PopulateRegistry(definitions)
        /\ registry[calls[c].queueName] = TaskConfig(Num(-1), Bool(FALSE))
        /\ calls[c].stored = 1
        /\ ~calls[c].options.taskName.some
        /\ calls[c].request.name = NoStr
        /\ calls[c].request.scheduleTime = NoNum

----------------------------------------------------------------------------
(* Retries and their log lines *)

\* the step in which the current attempt of call c fails
AttemptFails(c) ==
    /\ calls[c].pc = "Attempting"
    /\ calls'[c].pc \in {"RetryableFailure", "TerminalFailure", "Deduplicated"}

\* the warning of the failed attempt of call a: its attempt number and the
\* retries left after it
WarnedAttempt(a, b) ==
    /\ b.warns = a.warns + 1
    /\ b.lastWarn.level = "warn"
    /\ b.lastWarn.subject = a.queueName
    /\ b.lastWarn.attemptNumber = a.attempts
    /\ b.lastWarn.retriesLeft = Retries + 1 - a.attempts
    /\ b.lastWarn.message = b.lastError.message

C22_ConflictLoggedAsInfo ==
    [][\A c \in CallIds :
        LET a == calls[c]
            b == calls'[c]
        IN  /\ (AttemptFails(c) /\ b.lastError = ConflictError) =>
                    /\ b.pc = "Deduplicated"
                    /\ b.infos = 1 /\ a.infos = 0
                    /\ b.lastLog.level = "info"
                    /\ b.lastLog.subject = a.finalTaskName.v
                    /\ b.errors = 0
                    /\ b.warns = a.warns
                    /\ b.lastWarn = a.lastWarn
            /\ a.pc = "Deduplicated" => b = a]_vars

\* a call whose first attempt failed with a transient error after the task
\* was stored and whose second attempt was answered with the conflict: one
\* warning for the first attempt, one info for the second
C22_Witness ==
    \E c \in CallIds :
        /\ calls[c].pc = "Deduplicated"
        /\ calls[c].attempts = 2
        /\ calls[c].stored = 1
        /\ calls[c].warns = 1
        /\ calls[c].lastWarn.attemptNumber = 1
        /\ calls[c].infos = 1
        /\ calls[c].errors = 0

----------------------------------------------------------------------------
(* v2 against v1 *)

\* C23: a v2 call without delaySeconds, scheduler(data) or
\* scheduler(data, {taskName: n}), sends the request (parent, name,
\* scheduleTime, body) that the v1 call scheduler(data) or scheduler(data, n)
\* sends for the same registry, payload and clock, and ends as the v1 call
\* ends: on a serialization error, and on every failure of an attempt.
C23_SameAsV1 ==
    /\ [](\A c \in CallIds :
            LET a == calls[c]
                v1 == ScheduledCallV1(PendingCall, a.queueName, a.data,
                                      a.options.taskName, a.nameNow,
                                      a.scheduleNow)
            IN  (a.pc # "Pending" /\ ~a.options.delaySeconds.some) =>
                    /\ v1.request = a.request
                    /\ v1.finalTaskName = a.finalTaskName
                    /\ (v1.attempts = 0) = (a.attempts = 0)
                    /\ a.attempts = 0 => (v1.pc = a.pc /\ v1.thrown = a.thrown))
    /\ [][\A c \in CallIds :
            LET a == calls[c]
                b == calls'[c]
                v1 == FailedV1(a.queueName, a.finalTaskName, b.lastError,
                               a.attempts)
            IN  (AttemptFails(c) /\ ~a.options.delaySeconds.some) =>
                    (v1.pc = b.pc /\ v1.thrown = b.thrown)]_vars

\* a named v2 call without delaySeconds on a queue with a window of one
\* second that failed after six attempts, as the v1 call does
C23_Witness ==
    \E c \in CallIds :
        /\ calls[c].pc = "TerminalFailure"
        /\ calls[c].attempts = Retries + 1
        /\ calls[c].options = [taskName |-> Str("sync"), delaySeconds |-> NoNum]
        /\ WindowOf(calls[c]) = Num(1)
        /\ calls[c].request.scheduleTime.some
        /\ calls[c].request
            = ScheduledCallV1(PendingCall, calls[c].queueName, calls[c].data,
                              Str("sync"), calls[c].nameNow,
                              calls[c].scheduleNow).request

----------------------------------------------------------------------------
(* The execution side *)

maxAttemptsOf(options) == options.retryConfig.v.maxAttempts.v

\* a task was delivered to a handler whose queue has a schema
Delivered ==
    /\ handlerOptions.created
    /\ handlerOptions.queueName \in DOMAIN schemas
    /\ execution.deliveries > 0

ParsedDelivery == safeParse(schemas[handlerOptions.queueName], execution.data)

\* C24: when the delivered payload fails the validation of the queue's
\* schema, the handler is never invoked, the validation error is logged and
\* the function completes without throwing, so the task is delivered once
\* and never again.
C24_InvalidPayloadNotRetried ==
    (Delivered /\ ~ParsedDelivery.success)
        => /\ execution.invocations = 0
           /\ execution.handlerArg = NoData
           /\ execution.pc = "Completed"
           /\ execution.thrown = NoError
           /\ execution.errors = 1
           /\ execution.deliveries = 1
           /\ ~ENABLED Redeliver

C24_Witness ==
    /\ Delivered
    /\ ~ParsedDelivery.success
    /\ execution.pc = "Completed"
    /\ execution.errors = 1
    /\ maxAttemptsOf(handlerOptions.mergedOptions) > 1

\* C25: when the delivered payload passes validation, every delivery invokes
\* the handler exactly once, with the data the schema parsed; an error the
\* handler throws or rejects with is the error the function rejects with,
\* and the transport delivers the task again while deliveries remain.
C25_ValidPayloadHandledOnce ==
    (Delivered /\ ParsedDelivery.success)
        => /\ execution.invocations = execution.deliveries
           /\ execution.handlerArg = ParsedDelivery.data
           /\ execution.errors = 0
           /\ execution.handlerError # NoError
                  => /\ execution.pc = "Rejected"
                     /\ execution.thrown = execution.handlerError
                     /\ execution.deliveries
                            < maxAttemptsOf(handlerOptions.mergedOptions)
                        => ENABLED Redeliver

C25_Witness ==
    /\ Delivered
    /\ ParsedDelivery.success
    /\ ParsedDelivery.data # execution.data
    /\ execution.pc = "Rejected"
    /\ execution.handlerError \in HandlerErrors
    /\ execution.deliveries = 2
    /\ execution.invocations = 2

\* the value of a property by precedence: the handler's options, then the
\* options of createTypedTasks, then the library defaults
ByPrecedence(k, options, globalOptions, defaults) ==
    IF options[k].has THEN options[k]
    ELSE IF globalOptions[k].has THEN globalOptions[k]
    ELSE defaults[k]

TopLevelKeys == {"memory", "timeoutSeconds", "vpcConnector"}

\* C26: the configuration of a handler takes every top-level key from the
\* handler's own options, else from the global options, else from the
\* library defaults; rateLimits and retryConfig are merged per field in the
\* same order, so a field the handler does not set keeps its global or
\* default value.
C26_OptionsMergedByPrecedence ==
    handlerOptions.created
        => LET merged == handlerOptions.mergedOptions
               options == handlerOptions.options
               globalOptions == handlerOptions.typedTasksOptions
           IN /\ \A k \in TopLevelKeys :
                    merged[k] = ByPrecedence(k, options, globalOptions,
                                             defaultHandlerOptions)
              /\ merged.rateLimits.has /\ merged.rateLimits.defined
              /\ \A f \in DOMAIN NoRateLimits :
                    merged.rateLimits.v[f] =
                        ByPrecedence(f,
                            orEmpty(options.rateLimits, NoRateLimits),
                            orEmpty(globalOptions.rateLimits, NoRateLimits),
                            defaultHandlerOptions.rateLimits.v)
              /\ merged.retryConfig.has /\ merged.retryConfig.defined
              /\ \A f \in DOMAIN NoRetryConfig :
                    merged.retryConfig.v[f] =
                        ByPrecedence(f,
                            orEmpty(options.retryConfig, NoRetryConfig),
                            orEmpty(globalOptions.retryConfig, NoRetryConfig),
                            defaultHandlerOptions.retryConfig.v)

\* the handler sets one field of rateLimits and of retryConfig, the global
\* options set another one, and the remaining ones are the defaults
C26_Witness ==
    /\ handlerOptions.created
    /\ handlerOptions.mergedOptions.memory = Value("1GiB")
    /\ handlerOptions.mergedOptions.timeoutSeconds = Value(MINUTE_SECONDS)
    /\ handlerOptions.mergedOptions.rateLimits.v =
           [maxDispatchesPerSecond |-> Value(1),
            maxConcurrentDispatches |-> Value(5)]
    /\ handlerOptions.mergedOptions.retryConfig.v =
           [maxAttempts |-> Value(2),
            minBackoffSeconds |-> Value(10),
            maxBackoffSeconds |-> Value(HOUR_SECONDS),
            maxRetrySeconds |-> Value(0)]

----------------------------------------------------------------------------
(* The envelope *)

Submitted(c) == calls[c].request # NoRequest

\* C27: the body of every submitted request is the base64 encoding of the
\* JSON serialization of {data: payload}, and decoding and parsing it gives
\* an object whose only top-level key is data, with the caller's payload as
\* its value.
C27_EnvelopeRoundTrip ==
    \A c \in CallIds :
        Submitted(c)
            => /\ calls[c].request.body
                      = base64(JSONstringifyEnvelope(calls[c].data))
               /\ LET parsed == JSONparseEnvelope(fromBase64(calls[c].request.body))
                  IN  /\ parsed.keys = {"data"}
                      /\ parsed.data = calls[c].data

\* the payload undefined was submitted, and the body holds no data key
C27_Witness ==
    /\ Submitted(1)
    /\ calls[1].data = JUndefined
    /\ calls[1].pc = "Succeeded"
    /\ JSONparseEnvelope(fromBase64(calls[1].request.body)).keys = {}

----------------------------------------------------------------------------
(* The submission state machine *)

CallStates ==
    {"Pending", "Attempting", "Succeeded", "Deduplicated", "RetryableFailure",
     "TerminalFailure"}

TerminalStates == {"Succeeded", "Deduplicated", "TerminalFailure"}

CallSteps ==
    {<<"Pending", "Attempting">>,
     <<"Attempting", "Succeeded">>,
     <<"Attempting", "Deduplicated">>,
     <<"Attempting", "RetryableFailure">>,
     <<"Attempting", "TerminalFailure">>,
     <<"RetryableFailure", "Attempting">>}

\* C28: a call moves Pending -> Attempting, an attempt ends in Succeeded,
\* Deduplicated, RetryableFailure or TerminalFailure, and RetryableFailure
\* is followed by another attempt; createTask is called exactly when the
\* call enters Attempting, never once the call is in a terminal state, and
\* at most 6 times per call.
C28_SubmissionStateMachine ==
    /\ [](\A c \in CallIds :
            /\ calls[c].pc \in CallStates
            /\ calls[c].attempts <= Retries + 1
            /\ calls[c].pc = "Pending" => calls[c].attempts = 0)
    /\ [][\A c \in CallIds :
            /\ calls'[c].pc # calls[c].pc
                   => <<calls[c].pc, calls'[c].pc>> \in CallSteps
            /\ calls'[c].attempts # calls[c].attempts
                   => /\ calls'[c].pc = "Attempting"
                      /\ calls[c].pc \in {"Pending", "RetryableFailure"}
                      /\ calls'[c].attempts = calls[c].attempts + 1
            /\ (calls'[c].pc = "Attempting" /\ calls[c].pc # "Attempting")
                   => calls'[c].attempts = calls[c].attempts + 1
            /\ calls[c].pc \in TerminalStates => calls'[c] = calls[c]]_vars

\* a call failed six times and ended
C28_Witness ==
    /\ calls[1].pc = "TerminalFailure"
    /\ calls[1].attempts = Retries + 1
    /\ calls[1].lastError \in TransientErrors

\* C29: when every createTask call returns or throws and every backoff
\* delay ends, a call that was made eventually resolves or rejects,
\* whatever the transport answers.
C29_CallTerminates ==
    (calls[1].pc # "Pending") ~> (calls[1].pc \in TerminalStates)

\* a call that succeeded at its last attempt, after five failures
C29_Witness ==
    /\ calls[1].pc = "Succeeded"
    /\ calls[1].attempts = Retries + 1
    /\ calls[1].warns = Retries

----------------------------------------------------------------------------
(* The backoff delays *)

\* the delay before retry k without jitter: random is 1
BeforeJitter(k) == createTimeout(k, RandomScale)

\* C30: without jitter the delay before retry k, k = 1..5, is
\* min(1000 * 2^(k-1), 10000) ms, that is 1 s, 2 s, 4 s, 8 s, 10 s, and
\* never decreases; with jitter, a factor from 1 to 2, every delay a call
\* waits is at least 1000 ms, at least the delay without jitter, and at
\* most the cap of 10000 ms.
C30_CappedExponentialBackoff ==
    /\ \A k \in 1..Retries :
          BeforeJitter(k) = Min(1000 * 2 ^ (k - 1), 10000)
    /\ [k \in 1..Retries |-> BeforeJitter(k)]
           = <<1000, 2000, 4000, 8000, 10000>>
    /\ \A k \in 1..(Retries - 1) : BeforeJitter(k) <= BeforeJitter(k + 1)
    /\ \A c \in CallIds :
          /\ Len(calls[c].delays) <= Retries
          /\ calls[c].pc # "Pending"
                 => Len(calls[c].delays) = calls[c].attempts - 1
          /\ \A k \in 1..Len(calls[c].delays) :
                /\ calls[c].delays[k] >= 1000
                /\ calls[c].delays[k] >= BeforeJitter(k)
                /\ calls[c].delays[k] <= 2 * BeforeJitter(k)
                /\ calls[c].delays[k] <= 10000

\* a call waited five delays, with jitter in some and the cap reached
C30_Witness ==
    /\ Len(calls[1].delays) = Retries
    /\ calls[1].delays[1] = 1999
    /\ calls[1].delays[2] = 2000
    /\ calls[1].delays[3] = 6000
    /\ calls[1].delays[4] = 10000
    /\ calls[1].delays[5] = 10000

----------------------------------------------------------------------------
(* The schedule time sent *)

\* C31: the schedule time resolved is absent or later than the second of
\* the clock it was computed from: a request carries a scheduleTime only
\* with a positive offset, the window's or the caller's delay, and an
\* offset of 0 or below is never sent.
C31_ScheduleTimeAbsentOrLater ==
    \A c \in CallIds :
        LET a == calls[c]
            t == a.request.scheduleTime
            w == WindowOf(a)
            d == a.options.delaySeconds
        IN  Submitted(c) =>
                /\ t.some => /\ t.v > a.scheduleNow \div MsPerSecond
                             /\ \/ w.some /\ w.v > 0
                                \/ d.some /\ d.v > 0
                /\ (~(w.some /\ w.v > 0) /\ ~(d.some /\ d.v > 0)) => ~t.some

\* a call with a negative delay on a queue with a negative window sends no
\* scheduleTime, after the clock has moved
C31_Witness ==
    /\ Submitted(1)
    /\ WindowOf(calls[1]) = Num(-1)
    /\ calls[1].options.delaySeconds = Num(-1)
    /\ calls[1].scheduleNow = TickMs
    /\ calls[1].request.scheduleTime = NoNum

----------------------------------------------------------------------------
(* The request of the retries *)

\* C32: the name and the schedule time are resolved once, before the first
\* attempt: the request of a call (parent, name, scheduleTime, body) never
\* changes once it is built, so every retry submits the request of the
\* first attempt, also when the clock has crossed a window boundary or the
\* retries last longer than the window.
C32_RetriesResubmitSameRequest ==
    [][\A c \in CallIds :
          calls[c].pc # "Pending"
              => /\ calls'[c].request = calls[c].request
                 /\ calls'[c].finalTaskName = calls[c].finalTaskName
                 /\ calls'[c].nameNow = calls[c].nameNow
                 /\ calls'[c].scheduleNow = calls[c].scheduleNow]_vars

\* a retry made a whole window after the call, in the next window: resolved
\* now, the name and the schedule time would differ from the ones submitted
C32_Witness ==
    LET a == calls[1] IN
    /\ a.pc = "Attempting"
    /\ a.attempts >= 2
    /\ WindowOf(a) = Num(1)
    /\ now >= a.nameNow + MsPerSecond
    /\ finalTaskName(registry[a.queueName], a.data, a.options, now)
           # a.finalTaskName
    /\ scheduleTimeSeconds(registry[a.queueName], a.options, now)
           # a.request.scheduleTime
    /\ a.request.name = Str(taskPath(a.queueName, a.finalTaskName.v))

----------------------------------------------------------------------------
(* Lost acknowledgements *)

Named(c) == Submitted(c) /\ calls[c].request.name.some

\* an attempt of the named call was stored by the transport and reported to
\* the call as a failure
LostAcked(c) ==
    /\ Named(c)
    /\ calls[c].stored >= 1
    /\ calls[c].pc # "Succeeded"

\* C33 as claimed: a named call with an attempt stored by the transport and
\* reported as a transient error is resolved by the conflict of its retry:
\* it never ends in failure.
C33_Original ==
    \A c \in CallIds :
        (LostAcked(c) /\ calls[c].pc \in TerminalStates)
            => /\ calls[c].pc = "Deduplicated"
               /\ calls[c].thrown = NoError

\* C33, amended: after such an attempt no later attempt stores the task
\* again or returns: an attempt the transport answers ends with the
\* conflict, which resolves the call, and the transport holds the task
\* once.  The call ends in failure all the same when the stored attempt was
\* its last one or when every later attempt fails with another error.
C33_LostAckAbsorbed ==
    /\ [](\A c \in CallIds :
            /\ Named(c) => /\ calls[c].stored <= 1
                           /\ calls[c].stored = 1
                                  => calls[c].request.name.v \in taskNames
            /\ LostAcked(c)
                   => /\ calls[c].pc = "Deduplicated"
                          => /\ calls[c].thrown = NoError
                             /\ calls[c].lastError = ConflictError
                      /\ calls[c].pc = "TerminalFailure"
                          => /\ calls[c].lastError \notin {NoError, ConflictError}
                             /\ calls[c].thrown = calls[c].lastError
                             /\ calls[c].lastError \in TransientErrors
                                    => calls[c].attempts = Retries + 1)
    /\ [][\A c \in CallIds :
            (LostAcked(c) /\ calls[c].pc = "Attempting"
                          /\ calls'[c].pc # "Attempting")
                => /\ calls'[c].stored = calls[c].stored
                   /\ taskNames' = taskNames
                   /\ IF calls'[c].lastError = ConflictError
                      THEN calls'[c].pc = "Deduplicated"
                      ELSE calls'[c].pc \in {"RetryableFailure",
                                             "TerminalFailure"}]_vars

\* the first attempt was stored and reported as a failure, and the retry
\* was answered with the conflict
C33_Witness ==
    /\ LostAcked(1)
    /\ calls[1].pc = "Deduplicated"
    /\ calls[1].attempts = 2
    /\ calls[1].warns = 1
    /\ calls[1].infos = 1
    /\ calls[1].stored = 1
    /\ calls[1].request.name.v \in taskNames

----------------------------------------------------------------------------
(* No false success *)

Resolved(call) == call.pc \in {"Succeeded", "Deduplicated"}

\* C34: a call resolves only when a createTask attempt of it returned, or
\* when an attempt, or the serialization of the body inside the try block,
\* raised an error whose message contains ALREADY_EXISTS; a call whose
\* last error is another one is never resolved, and a resolved call has
\* thrown nothing.
C34_NoFalseSuccess ==
    /\ [](\A c \in CallIds :
            LET a == calls[c] IN
            /\ Resolved(a) => a.thrown = NoError
            /\ a.pc = "Succeeded"
                   => /\ a.lastError = NoError
                      /\ a.attempts >= 1
                      /\ a.stored >= 1
            /\ a.pc = "Deduplicated"
                   => \/ /\ a.attempts >= 1
                         /\ includesALREADY_EXISTS(a.lastError.message)
                      \/ /\ a.attempts = 0
                         /\ includesALREADY_EXISTS(
                                JSONstringifyError(a.data).message)
            /\ (a.attempts >= 1
                    /\ a.lastError # NoError
                    /\ ~includesALREADY_EXISTS(a.lastError.message))
                   => ~Resolved(a))
    /\ [][\A c \in CallIds :
            (~Resolved(calls[c]) /\ Resolved(calls'[c]))
                => \/ /\ calls[c].pc = "Attempting"
                      /\ calls'[c].pc = "Succeeded"
                      /\ calls'[c].stored = calls[c].stored + 1
                   \/ /\ calls[c].pc = "Attempting"
                      /\ calls'[c].pc = "Deduplicated"
                      /\ includesALREADY_EXISTS(calls'[c].lastError.message)
                   \/ /\ calls[c].pc = "Pending"
                      /\ calls'[c].pc = "Deduplicated"
                      /\ includesALREADY_EXISTS(
                             JSONstringifyError(calls'[c].data).message)]_vars

\* a call whose six attempts all failed with transient errors was rejected
C34_Witness ==
    /\ calls[1].pc = "TerminalFailure"
    /\ calls[1].attempts = Retries + 1
    /\ calls[1].warns = Retries + 1
    /\ calls[1].stored = 0
    /\ calls[1].thrown \in TransientErrors

----------------------------------------------------------------------------
(* The empty caller name *)

\* C35: a caller name that is the empty string counts as no caller name:
\* with effective deduplication the name sent is generated from the payload
\* (with the window suffix when the queue has a window), without it the
\* request has no name; the request is the one of the same call made
\* without a caller name, and neither the empty name nor a bare window
\* suffix is ever sent.
C35_EmptyNameIsNoName ==
    \A c \in CallIds :
        LET a == calls[c]
            q == a.queueName
            unnamed == [a.options EXCEPT !.taskName = NoStr]
        IN  (Submitted(c) /\ a.options.taskName = Str(""))
                => /\ IF EffectiveDeduplication(a)
                      THEN a.request.name =
                               Str(taskPath(q, generateTaskNameFromPayload(
                                                   a.data, WindowOf(a),
                                                   a.nameNow)))
                      ELSE a.request.name = NoStr
                   /\ a.request =
                          BuildRequest(q, a.data,
                              finalTaskName(registry[q], a.data, unnamed,
                                            a.nameNow),
                              scheduleTimeSeconds(registry[q], unnamed,
                                                  a.scheduleNow))
                   /\ a.request.name.some
                          => /\ a.request.name.v # taskPath(q, "")
                             /\ \A bucket \in 0..MaxTicks :
                                   a.request.name.v
                                       # taskPath(q, "-" \o ToString(bucket))

\* the empty name on a queue with a window of one second, called in the
\* second window: the name is the payload's hash with the suffix -1
C35_Witness ==
    /\ Submitted(1)
    /\ calls[1].options.taskName = Str("")
    /\ WindowOf(calls[1]) = Num(1)
    /\ calls[1].nameNow = 2 * TickMs
    /\ calls[1].data = JObject("email", "a")
    /\ calls[1].request.name =
           Str(taskPath(calls[1].queueName,
                        md5(JSONstringify(calls[1].data)) \o "-1"))

----------------------------------------------------------------------------
(* The client *)

Factories == {"createScheduler", "createHandler"}

PropertyNames ==
    {"emailQueue", "syncQueue", "otherQueue"} \cup Factories \cup ObjectPrototype

\* C36: for every definitions record, `name in client` is true for exactly
\* the defined queue names and the two factories, and createScheduler and
\* createHandler are functions, whatever the queue names are.
C36_ClientProperties ==
    LET client == tasksProxy(definitions) IN
    /\ \A name \in PropertyNames :
          In(name, client) <=> name \in DOMAIN definitions \cup Factories
    /\ Callable(client, "createScheduler")
    /\ Callable(client, "createHandler")

\* a queue named createScheduler: the property holds true, the factory is
\* gone, and createHandler was still called
C36_Witness ==
    /\ "createScheduler" \in DOMAIN definitions
    /\ tasksProxy(definitions)["createScheduler"] = "true"
    /\ ~Callable(tasksProxy(definitions), "createScheduler")
    /\ handlerOptions.created
    /\ calls[1].pc = "Pending"

====
